---- MODULE Spec2Model ----
(***************************************************************************)
(* A model of multicats: a server that multicasts the chunks of one image  *)
(* on request, and clients that reassemble the chunks from fragments.      *)
(*                                                                         *)
(*   SpecAsm   the ChunkAssembler of src/bin/client/chunk.rs, driven by    *)
(*             arbitrary add_fragment calls.                               *)
(*   SpecDisp  the request listener and the chunk dispatcher of            *)
(*             src/bin/server/tasks/chunk.rs, driven by arbitrary request  *)
(*             datagrams; time is abstracted.                              *)
(*   SpecPace  the same two tasks under a discrete clock.                  *)
(***************************************************************************)
EXTENDS Integers, Sequences, FiniteSets, TLC

VARIABLES
    \* ---- the assembler under study (SpecAsm)
    asm,        \* a ChunkAssembler: [data, map]
    hist,       \* the add_fragment calls made on it: <<[offset, data, ok]>>
    \* ---- the server
    cancelled,  \* state.token is cancelled
    args,       \* state.args: [chunk_size, max_udp_payload_size, flood_speed]
    file,       \* the bytes of the image file (state.args.file)
    image,      \* state.image.chunks: <<[offset, size, hash]>>, chunk i at i + 1
    chan,       \* the mpsc channel from the listener to the dispatcher
    l_pc,       \* request_listener: "recv" | "send" | "done" | "panic"
    l_ids,      \* request_listener: the ids of the request not yet forwarded
    queue,      \* chunk_dispatcher: queue
    last_id,    \* chunk_dispatcher: last_id
    sleep,      \* chunk_dispatcher: sleep, the next send deadline
    d_pc,       \* chunk_dispatcher: "loop" | "select" | "send" | "done" | "panic"
    d_next,     \* chunk_dispatcher: next, the chunk being served
    d_count,    \* chunk_dispatcher: count, the position in the chunk served
    fs_l,       \* chunk_dispatcher: l of the search for max_fragment_size
    fs_r,       \* chunk_dispatcher: r of the search for max_fragment_size
    net,        \* net[c]: the transfer-socket datagrams in flight to receiver c
    now,        \* the clock (Instant::now())
    \* ---- history of the server (recorded when an action is observed)
    served,     \* the chunks served: <<[id, via, fresh]>>
    fresh,      \* ids forwarded to the dispatcher since they were last served
    nreq,       \* request datagrams received so far
    last_req,   \* the last request received: [ids, at, idle, x, total]
    sends,      \* the fragments sent: <<[at, deadline, len, service, offset, size]>>
    \* ---- the clients (each a function of the client)
    req_net,    \* the ChunkRequest datagrams in flight to the request socket
    missing,    \* chunk_receiver: missing
    assemblers, \* chunk_receiver: assemblers, a map from chunk id to assembler
    r_pc,       \* chunk_receiver: "start" | "wait_image" | "loop" | "done" | "panic"
    to_disk,    \* the mpsc channel from the receiver to the disk writer
    disk,       \* the bytes of the output file
    w_pc,       \* disk_writer: "start" | "wait_image" | "loop" | "done" | "panic"
    w_count,    \* disk_writer: count, the bytes written so far
    r_sleep,    \* chunk_receiver: when the sleep of the current select! is due
    r_req_at,   \* when the receiver sent its last ChunkRequest (0 before the first)
    \* ---- history of the clients (recorded when an action is observed)
    c_log,      \* c_log[c]: <<[ev |-> "evict" | "hand" | "write", id, pair]>>
    \* ---- the start of the server's session (src/bin/server/main.rs, tasks.rs)
    metadata_socket, \* state.metadata_socket is set
    request_socket,  \* state.request_socket is set
    b_pc,       \* server_discovery: "wait" | "send" | "sleep" | "done"
    beacons,    \* the discovery records sent so far
    m_pc,       \* metadata_server: "bind" | "accept" | "done"
    m_conns,    \* metadata_server: pos of each connection's task, in accept order
    \* ---- the start of each client (src/bin/client/tasks.rs)
    c_server,   \* state.server is set
    c_image,    \* state.image is set
    h_pc,       \* server_discovery (client): "recv" | "done"
    f_pc,       \* metadata_transfer: "wait" | "connect" | "read" | "done" | "error"
    f_stream,   \* the bytes of the metadata connection not yet read
    f_eof,      \* the server has closed the metadata connection
    f_reads,    \* the read_to_end calls that have returned
    o_file      \* the output file: "absent" | "created" | "sized"

vars_asm == <<asm, hist>>
vars_cfg == <<args, file, image>>
vars_lst == <<l_pc, l_ids>>
vars_dsp == <<queue, last_id, sleep, d_pc, d_next, d_count, fs_l, fs_r>>
vars_obs == <<served, fresh, nreq, last_req, sends>>
vars_srv == <<cancelled, vars_cfg, chan, vars_lst, vars_dsp, net, now, vars_obs>>
vars_cli == <<missing, assemblers, r_pc, to_disk, disk, w_pc, w_count, r_sleep, r_req_at, c_log>>
vars_cli_but_w_pc == <<missing, assemblers, r_pc, to_disk, disk, w_count, r_sleep, r_req_at, c_log>>
vars_sup == <<metadata_socket, request_socket, b_pc, beacons, m_pc, m_conns>>
vars_cup == <<c_server, c_image, h_pc, f_pc, f_stream, f_eof, f_reads, o_file>>
vars_boot == <<vars_sup, vars_cup>>
vars == <<vars_asm, vars_srv, req_net, vars_cli, vars_boot>>

(***************************************************************************)
(* Bounds of the model.                                                    *)
(***************************************************************************)
MaxSize == 3        \* largest assembler capacity explored
MaxCalls == 3       \* add_fragment calls made on one assembler
NTags == 2          \* distinct payload contents per fragment length
HashRange == 97     \* the values of the chunk hash (2^64 in the program)
MaxReqs == 2        \* request datagrams the server receives (SpecDisp)
MaxReqLen == 3      \* ids in one request datagram (SpecDisp)
MaxIds == 4         \* ids in all request datagrams together (SpecDisp)
MaxPaceReqs == 2    \* request datagrams the server receives (SpecPace)
MaxTime == 3        \* the clock stops here (SpecPace)
TicksPerSecond == 1 \* clock ticks in Duration::from_secs(1)
DispFlood == 4      \* a quarter of flood_speed, in bits a second (SpecDisp, SpecPace)
NClients == 1       \* the clients of SpecXfer
MaxBacklog == 1     \* ids the server has yet to take when a timer fires (SpecXfer)
MaxDiskBacklog == 1 \* pairs the disk writer has yet to take when a datagram arrives
LossChunks == 42    \* the chunks of the image of SpecLoss
ReceiverPeriod == 2 \* Duration::from_millis(100), in ticks of the clock
MaxFileLen == 6     \* the longest file of SpecMeta
MaxChunkSize == 3   \* the largest chunk_size of SpecMeta
MaxPayload == 40    \* the largest max_udp_payload_size of SpecSearch
MinFragPayload == 19    \* the smallest max_udp_payload_size of SpecFrag
MaxFragPayload == 24    \* the largest max_udp_payload_size of SpecFrag
MaxSends == 6    \* SpecFrag: the fragments sent in one behaviour
MaxLog == 4    \* the events of a client observed in one behaviour
MaxHands == 3    \* SpecWrite: the pairs handed to the disk writer in one behaviour
MaxConns == 2    \* SpecStart: the metadata connections open at a time
MaxReads == 3    \* SpecClient: the read_to_end calls of the metadata fetch

(***************************************************************************)
(* Constants of the program.                                               *)
(***************************************************************************)
UsizeBits == 64     \* the width of usize (usize::MAX is 2^64 - 1)
U16Max == 65535     \* u16::MAX
ChanCap == 256      \* channel::<usize>(256)
DiskChanCap == 128  \* channel(128), receiver to disk writer
AssemblerCap == 40  \* while assemblers.len() > 40
RequestCapacity == 40 \* ChunkRequest::CAPACITY

(***************************************************************************)
(* Helpers.                                                                *)
(***************************************************************************)
Min(a, b) == IF a <= b THEN a ELSE b
Max(a, b) == IF a >= b THEN a ELSE b

\* The order of (usize, usize) tuples in a BTreeSet: lexicographic.
TupleLt(p, q) == p[1] < q[1] \/ (p[1] = q[1] /\ p[2] < q[2])

\* The greatest and the smallest element of a non-empty set of tuples.
TupleMax(S) == CHOOSE p \in S : \A q \in S : q = p \/ TupleLt(q, p)
TupleMin(S) == CHOOSE p \in S : \A q \in S : q = p \/ TupleLt(p, q)

\* The payloads a fragment of length n may carry. Bytes are non-zero, so a
\* copied byte differs from the zero the buffer is created with, and depend on
\* the position in the fragment, so a misplaced copy shows.
Payloads(n) == IF n = 0 THEN {<< >>}
               ELSE {[i \in 1..n |-> 10 * t + i] : t \in 1..NTags}

(***************************************************************************)
(* ChunkAssembler (src/bin/client/chunk.rs).                               *)
(***************************************************************************)
\* ChunkAssembler::new: a zeroed buffer and no covered range.
ChunkAssembler_new(chunk_size) ==
    [data |-> [i \in 1..chunk_size |-> 0], map |-> {}]

\* map.range(..(offset, 0)).next_back().copied().unwrap_or((0, 0))
before_of(self, offset) ==
    LET S == {p \in self.map : TupleLt(p, <<offset, 0>>)}
    IN  IF S = {} THEN <<0, 0>> ELSE TupleMax(S)

\* map.range((offset, 0)..).next().copied().unwrap_or((data.len(), 0))
after_of(self, offset) ==
    LET S == {p \in self.map : ~TupleLt(p, <<offset, 0>>)}
    IN  IF S = {} THEN <<Len(self.data), 0>> ELSE TupleMin(S)

\* self.data[add.0..add.0 + add.1].copy_from_slice(data)
copy_from_slice(buf, at, data) ==
    [i \in 1..Len(buf) |->
        IF i > at /\ i <= at + Len(data) THEN data[i - at] ELSE buf[i]]

\* A variant of add_fragment that copies the payload before it checks the
\* fragment against its neighbours.
add_fragment_copy_first(self, offset, data) ==
    LET before == before_of(self, offset)
        after  == after_of(self, offset)
        n      == Len(data)
    IN  IF before[1] + before[2] > offset \/ offset + n > after[1]
        THEN [ok |-> FALSE,
              asm |-> [self EXCEPT !.data = copy_from_slice(self.data, offset, data)]]
        ELSE LET m1   == IF before[1] + before[2] = offset
                         THEN self.map \ {before} ELSE self.map
                 add1 == IF before[1] + before[2] = offset
                         THEN <<before[1], n + before[2]>> ELSE <<offset, n>>
                 m2   == IF add1[1] + add1[2] = after[1]
                         THEN m1 \ {after} ELSE m1
                 add2 == IF add1[1] + add1[2] = after[1]
                         THEN <<add1[1], add1[2] + after[2]>> ELSE add1
             IN  [ok |-> TRUE,
                  asm |-> [data |-> copy_from_slice(self.data, offset, data),
                           map  |-> m2 \cup {add2}]]

\* A variant of add_fragment that does not merge the new range with the
\* range that follows it.
add_fragment_no_merge_after(self, offset, data) ==
    LET before == before_of(self, offset)
        after  == after_of(self, offset)
        n      == Len(data)
    IN  IF before[1] + before[2] > offset \/ offset + n > after[1]
        THEN [ok |-> FALSE, asm |-> self]
        ELSE LET m1   == IF before[1] + before[2] = offset
                         THEN self.map \ {before} ELSE self.map
                 add1 == IF before[1] + before[2] = offset
                         THEN <<before[1], n + before[2]>> ELSE <<offset, n>>
             IN  [ok |-> TRUE,
                  asm |-> [data |-> copy_from_slice(self.data, offset, data),
                           map  |-> m1 \cup {add1}]]

\* ChunkAssembler::add_fragment: [ok, asm], the result and the assembler after
\* the call. An Err leaves self as it was (the bail! precedes every write).
add_fragment(self, offset, data) ==
    LET before == before_of(self, offset)
        after  == after_of(self, offset)
        n      == Len(data)
    IN  IF before[1] + before[2] > offset \/ offset + n > after[1]
        THEN [ok |-> FALSE, asm |-> self]
        ELSE LET m1   == IF before[1] + before[2] = offset
                         THEN self.map \ {before} ELSE self.map
                 add1 == IF before[1] + before[2] = offset
                         THEN <<before[1], n + before[2]>> ELSE <<offset, n>>
                 m2   == IF add1[1] + add1[2] = after[1]
                         THEN m1 \ {after} ELSE m1
                 add2 == IF add1[1] + add1[2] = after[1]
                         THEN <<add1[1], add1[2] + after[2]>> ELSE add1
             IN  [ok |-> TRUE,
                  asm |-> [data |-> copy_from_slice(self.data, offset, data),
                           map  |-> m2 \cup {add2}]]

\* ChunkAssembler::is_complete
is_complete(self) ==
    Cardinality(self.map) = 1 /\ TupleMin(self.map) = <<0, Len(self.data)>>

\* ChunkAssembler::complete (called on a complete assembler only: it panics
\* otherwise)
complete(self) == self.data

(***************************************************************************)
(* Wire format and image metadata.                                         *)
(***************************************************************************)
SetMin(S) == CHOOSE x \in S : \A y \in S : x <= y
SeqRange(q) == {q[i] : i \in 1..Len(q)}

\* The ascending sequence of a finite set of numbers.
RECURSIVE SortedSeq(_)
SortedSeq(S) == IF S = {} THEN << >>
                ELSE <<SetMin(S)>> \o SortedSeq(S \ {SetMin(S)})

\* postcard's varint: seven bits a byte.
RECURSIVE VarintLen(_)
VarintLen(v) == IF v < 128 THEN 1 ELSE 1 + VarintLen(v \div 128)

\* The bytes of the varint of usize::MAX.
VarintLenUsizeMax == (UsizeBits + 6) \div 7

\* The length of postcard's encoding of ChunkData { chunk, offset, data } with
\* n payload bytes: two varints, the length prefix, the payload.
EncodedLen(chunk, offset, n) == VarintLen(chunk) + VarintLen(offset) + VarintLen(n) + n

\* The same for chunk = offset = usize::MAX (the dispatcher's probe).
EncodedLenWorst(n) == 2 * VarintLenUsizeMax + VarintLen(n) + n

\* XxHash3_64::oneshot, as a polynomial hash onto 0..HashRange-1: a function of
\* the bytes that is not injective.
RECURSIVE HashFrom(_, _, _)
HashFrom(bytes, i, h) ==
    IF i > Len(bytes) THEN h
    ELSE HashFrom(bytes, i + 1, (31 * h + bytes[i]) % HashRange)
Hash(bytes) == HashFrom(bytes, 1, 7)

\* compute_image_metadata, every read filling the buffer up to the end of the
\* file: one chunk for each read.
RECURSIVE MetadataFrom(_, _, _)
MetadataFrom(f, chunk_size, pos) ==
    IF pos >= Len(f) THEN << >>
    ELSE LET size == Min(chunk_size, Len(f) - pos)
         IN  <<[offset |-> pos, size |-> size,
                hash |-> Hash(SubSeq(f, pos + 1, pos + size))]>>
             \o MetadataFrom(f, chunk_size, pos + size)
compute_image_metadata(f, chunk_size) == MetadataFrom(f, chunk_size, 0)

\* The bytes of chunk c of the file (c is 0-based).
ChunkBytes(c) == SubSeq(file, image[c + 1].offset + 1, image[c + 1].offset + image[c + 1].size)

(***************************************************************************)
(* chunk_dispatcher: the pure parts.                                       *)
(***************************************************************************)
\* The binary search for max_fragment_size; to_slice fails when the encoding
\* does not fit test_buf2 (u16::MAX bytes).
RECURSIVE FragmentSearch(_, _, _)
FragmentSearch(l, r, limit) ==
    IF r - l > 1
    THEN LET m == (r - l) \div 2 + l
         IN  IF EncodedLenWorst(m) <= U16Max /\ EncodedLenWorst(m) <= limit
             THEN FragmentSearch(m, r, limit)
             ELSE FragmentSearch(l, m, limit)
    ELSE l
max_fragment_size == FragmentSearch(0, U16Max, args.max_udp_payload_size)

\* A variant of the pick that looks for an id not smaller than last_id.
next_id_inclusive(q, last) ==
    LET ge == {x \in q : x >= last}
    IN  IF ge # {} THEN SetMin(ge) ELSE SetMin(q)

\* queue.range((Excluded(last_id), Unbounded)).next().or_else(|| queue.first())
\* for a non-empty queue.
next_id(q, last) ==
    LET gt == {x \in q : x > last}
    IN  IF gt # {} THEN SetMin(gt) ELSE SetMin(q)

\* 8 * sent as u32 * Duration::from_secs(1) / flood_speed, in clock ticks.
SendDelay(sent) == (8 * sent * TicksPerSecond) \div args.flood_speed

(***************************************************************************)
(* The server's tasks: request_listener and chunk_dispatcher. Each action  *)
(* is the code between two await points. `obs` says whether the history    *)
(* variables record the step, `timed` whether the clock runs.              *)
(***************************************************************************)
NoRequest == [ids |-> << >>, at |-> 0, idle |-> FALSE, x |-> 0, total |-> 0]

\* Both tasks of main have started: the metadata server accepts, the request
\* listener has bound its socket, the beacon has sent its first record.
ServerStarted ==
    /\ metadata_socket = TRUE /\ request_socket = TRUE
    /\ b_pc = "sleep" /\ beacons = 1
    /\ m_pc = "accept" /\ m_conns = << >>

\* The state before main starts its tasks.
ServerNotStarted ==
    /\ metadata_socket = FALSE /\ request_socket = FALSE
    /\ b_pc = "wait" /\ beacons = 0
    /\ m_pc = "bind" /\ m_conns = << >>

InitServer(f, a, clients) ==
    /\ ServerStarted
    /\ cancelled = FALSE
    /\ args = a
    /\ file = f
    /\ image = compute_image_metadata(f, a.chunk_size)
    /\ chan = << >>
    /\ l_pc = "recv" /\ l_ids = << >>
    /\ queue = {} /\ last_id = 0 /\ sleep = 0
    /\ d_pc = "loop" /\ d_next = 0 /\ d_count = 0
    /\ fs_l = FragmentSearch(0, U16Max, a.max_udp_payload_size)
    /\ fs_r = fs_l + 1
    /\ net = [c \in clients |-> {}]
    /\ now = 0
    /\ served = << >> /\ fresh = {} /\ nreq = 0 /\ last_req = NoRequest
    /\ sends = << >>

\* The dispatcher's receiver is dropped once chunk_dispatcher has returned,
\* the listener's sender once request_listener has returned.
ReceiverDropped == d_pc = "done"
SenderDropped == l_pc = "done"

\* state.token.cancel()
Cancel ==
    /\ ~cancelled
    /\ cancelled' = TRUE
    /\ UNCHANGED <<vars_asm, vars_boot, vars_cli, req_net, vars_cfg, chan, vars_lst, vars_dsp, net, now, vars_obs>>

\* request_listener, select!: the token is cancelled -> break.
ListenerCancelled ==
    /\ l_pc = "recv" /\ cancelled
    /\ l_pc' = "done"
    /\ UNCHANGED <<vars_asm, vars_boot, vars_cli, req_net, cancelled, vars_cfg, chan, l_ids, vars_dsp, net, now, vars_obs>>

\* request_listener with a select! that is not biased: the datagram may be
\* taken though the token is cancelled.
ListenerRecv_unbiased(ids, obs) ==
    /\ l_pc = "recv"
    /\ l_ids' = ids
    /\ l_pc' = IF ids = << >> THEN "recv" ELSE "send"
    /\ IF obs
       THEN /\ nreq' = nreq + 1
            /\ last_req' = [ids |-> ids, at |-> Len(served),
                            idle |-> queue = {} /\ chan = << >>, x |-> last_id,
                            total |-> last_req.total + Len(ids)]
       ELSE UNCHANGED <<nreq, last_req>>
    /\ UNCHANGED <<vars_asm, vars_boot, vars_cli, cancelled, vars_cfg, chan, vars_dsp, net, now,
                   served, fresh, sends>>

\* request_listener, select!: a datagram that decodes as the ChunkRequest ids
\* is received; the for loop starts.
ListenerRecv(ids, obs) ==
    /\ l_pc = "recv" /\ ~cancelled
    /\ l_ids' = ids
    /\ l_pc' = IF ids = << >> THEN "recv" ELSE "send"
    /\ IF obs
       THEN /\ nreq' = nreq + 1
            /\ last_req' = [ids |-> ids, at |-> Len(served),
                            idle |-> queue = {} /\ chan = << >>, x |-> last_id,
                            total |-> last_req.total + Len(ids)]
       ELSE UNCHANGED <<nreq, last_req>>
    /\ UNCHANGED <<vars_asm, vars_boot, vars_cli, cancelled, vars_cfg, chan, vars_dsp, net, now,
                   served, fresh, sends>>

\* request_listener, one turn of `for chunk_id in chunk_ids`: an id out of
\* range is warned about; every id is sent on the channel; a closed channel
\* breaks the for loop, and the listener goes back to its select!.
ListenerSend(obs) ==
    /\ l_pc = "send"
    /\ LET chunk_id == Head(l_ids)
       IN  IF ReceiverDropped
           THEN /\ l_ids' = << >> /\ l_pc' = "recv"
                /\ UNCHANGED <<chan, fresh>>
           ELSE /\ Len(chan) < ChanCap
                /\ chan' = Append(chan, chunk_id)
                /\ l_ids' = Tail(l_ids)
                /\ l_pc' = IF Tail(l_ids) = << >> THEN "recv" ELSE "send"
                /\ fresh' = IF obs THEN fresh \cup {chunk_id} ELSE fresh
    /\ UNCHANGED <<vars_asm, vars_boot, vars_cli, req_net, cancelled, vars_cfg, vars_dsp, net, now,
                   served, nreq, last_req, sends>>

\* chunk_dispatcher from `last_id = next` to the fragment loop: the chunk is
\* looked up (an index out of range panics, and the panic ends the task that
\* runs both the dispatcher and the listener) and read from the file.
Serve(x, via, obs) ==
    /\ last_id' = x
    /\ IF x >= Len(image)
       THEN /\ d_pc' = "panic" /\ l_pc' = "panic"
            /\ UNCHANGED <<d_next, d_count, l_ids>>
       ELSE /\ d_next' = x
            /\ d_count' = 0
            /\ d_pc' = IF image[x + 1].size > 0 THEN "send" ELSE "loop"
            /\ UNCHANGED <<l_pc, l_ids>>
    /\ IF obs
       THEN /\ served' = Append(served, [id |-> x, via |-> via, fresh |-> x \in fresh])
            /\ fresh' = fresh \ {x}
       ELSE UNCHANGED <<served, fresh>>

\* chunk_dispatcher, top of the loop: drain the channel into the queue, then
\* pick the next id and serve it, or wait in the select!.
DispLoop(obs) ==
    /\ d_pc = "loop"
    /\ LET q == queue \cup SeqRange(chan)
       IN  /\ chan' = << >>
           /\ IF q = {}
              THEN /\ d_pc' = "select"
                   /\ queue' = q
                   /\ UNCHANGED <<last_id, d_next, d_count, vars_lst, served, fresh>>
              ELSE /\ queue' = q \ {next_id(q, last_id)}
                   /\ Serve(next_id(q, last_id), "queue", obs)
    /\ UNCHANGED <<vars_asm, vars_boot, vars_cli, req_net, fs_l, fs_r, cancelled, vars_cfg, sleep, net, now, nreq, last_req, sends>>

\* chunk_dispatcher, select! (biased): cancelled -> break; an id received ->
\* sleep = Instant::now() and serve it; the channel closed -> break.
DispSelect(obs) ==
    /\ d_pc = "select"
    /\ IF cancelled \/ (chan = << >> /\ SenderDropped)
       THEN /\ d_pc' = "done"
            /\ UNCHANGED <<chan, sleep, last_id, d_next, d_count, vars_lst, served, fresh>>
       ELSE /\ chan # << >>
            /\ chan' = Tail(chan)
            /\ sleep' = now
            /\ Serve(Head(chan), "recv", obs)
    /\ UNCHANGED <<vars_asm, vars_boot, vars_cli, req_net, fs_l, fs_r, cancelled, vars_cfg, queue, net, now, nreq, last_req, sends>>

\* chunk_dispatcher, one turn of the fragment loop: encode the fragment, sleep
\* until the deadline, send it, move the deadline and the position.
DispSend(timed, obs) ==
    /\ d_pc = "send"
    /\ LET chunk     == image[d_next + 1]
           frag_size == Min(chunk.size - d_count, max_fragment_size)
           data      == SubSeq(ChunkBytes(d_next), d_count + 1, d_count + frag_size)
           sent      == EncodedLen(d_next, d_count, frag_size)
       IN  /\ timed => now >= sleep
           /\ net' = [c \in DOMAIN net |->
                        net[c] \cup {[chunk |-> d_next, offset |-> d_count, data |-> data]}]
           /\ sleep' = IF timed THEN sleep + SendDelay(sent) ELSE sleep
           /\ d_count' = d_count + frag_size
           /\ d_pc' = IF d_count + frag_size < chunk.size THEN "send" ELSE "loop"
           /\ sends' = IF obs
                       THEN Append(sends, [at |-> now, deadline |-> sleep, len |-> sent,
                                            service |-> Len(served), offset |-> d_count,
                                            size |-> Len(data)])
                       ELSE sends
    /\ UNCHANGED <<vars_asm, vars_boot, vars_cli, req_net, fs_l, fs_r, cancelled, vars_cfg, chan, vars_lst, queue, last_id,
                   d_next, now, served, fresh, nreq, last_req>>

\* chunk_dispatcher, fragment loop: socket.send fails (or sends less than the
\* datagram) and the `?` returns the error; try_join! in chunk_request_server
\* then drops the listener and returns the error to the spawned task.
DispSendFail ==
    /\ d_pc = "send"
    /\ d_pc' = "error"
    /\ l_pc' = "dropped"
    /\ UNCHANGED <<vars_asm, vars_boot, vars_cli, req_net, fs_l, fs_r, cancelled, vars_cfg, chan, l_ids, queue, last_id,
                   sleep, d_next, d_count, net, now, vars_obs>>

\* chunk_dispatcher, one turn of `while r - l > 1` of the search for
\* max_fragment_size: the probe of m payload bytes is encoded with to_slice
\* (which fails when the encoding is longer than test_buf2) and compared
\* with max_udp_payload_size.
SearchStep ==
    /\ d_pc = "search"
    /\ fs_r - fs_l > 1
    /\ LET m == (fs_r - fs_l) \div 2 + fs_l
       IN  IF EncodedLenWorst(m) <= U16Max /\ EncodedLenWorst(m) <= args.max_udp_payload_size
           THEN fs_l' = m /\ fs_r' = fs_r
           ELSE fs_r' = m /\ fs_l' = fs_l
    /\ UNCHANGED <<vars_asm, vars_boot, vars_cli, req_net, cancelled, vars_cfg, chan, vars_lst, queue, last_id,
                   sleep, d_pc, d_next, d_count, net, now, vars_obs>>

\* chunk_dispatcher: the search ends, max_fragment_size = l, and the task
\* goes on to its loop.
SearchDone ==
    /\ d_pc = "search"
    /\ ~(fs_r - fs_l > 1)
    /\ d_pc' = "loop"
    /\ UNCHANGED <<vars_asm, vars_boot, vars_cli, req_net, cancelled, vars_cfg, chan, vars_lst, queue, last_id,
                   sleep, d_next, d_count, fs_l, fs_r, net, now, vars_obs>>

\* Time passes.
Tick ==
    /\ now < MaxTime
    /\ now' = now + 1
    /\ UNCHANGED <<vars_asm, vars_boot, vars_cli, req_net, cancelled, vars_cfg, chan, vars_lst, vars_dsp, net, vars_obs>>

(***************************************************************************)
(* The start of the server's session: main spawns server_discovery and     *)
(* metadata_server (src/bin/server/main.rs, src/bin/server/tasks.rs).      *)
(***************************************************************************)
\* postcard::to_allocvec(&state.image): the length of the record, a varint
\* count and three varints for each chunk.
RECURSIVE ChunksLen(_)
ChunksLen(chunks) ==
    IF chunks = << >> THEN 0
    ELSE VarintLen(Head(chunks).offset) + VarintLen(Head(chunks).size)
           + VarintLen(Head(chunks).hash) + ChunksLen(Tail(chunks))
MetadataLen(img) == VarintLen(Len(img)) + ChunksLen(img)

\* metadata_server: TcpListener::bind, then state.metadata_socket.set.
MetadataBind ==
    /\ m_pc = "bind"
    /\ metadata_socket' = TRUE
    /\ m_pc' = "accept"
    /\ UNCHANGED <<vars_asm, vars_srv, req_net, vars_cli, vars_cup,
                   request_socket, b_pc, beacons, m_conns>>

\* metadata_server, select!: a connection is accepted and its task spawned.
MetadataAccept ==
    /\ m_pc = "accept" /\ ~cancelled
    /\ m_conns' = Append(m_conns, [pos |-> 0, open |-> TRUE])
    /\ UNCHANGED <<vars_asm, vars_srv, req_net, vars_cli, vars_cup,
                   metadata_socket, request_socket, b_pc, beacons, m_pc>>

\* A connection's task, one turn of `while pos < buf.len()`: stream.write
\* takes `written` bytes; an error or written = 0 breaks, and the task ends
\* (the stream is dropped) when the loop ends.
MetadataWrite(i, written) ==
    /\ i \in 1..Len(m_conns) /\ m_conns[i].open
    /\ written \in 0..(MetadataLen(image) - m_conns[i].pos)
    /\ m_conns' = [m_conns EXCEPT
                     ![i] = [pos |-> @.pos + written,
                             open |-> written # 0 /\ @.pos + written < MetadataLen(image)]]
    /\ UNCHANGED <<vars_asm, vars_srv, req_net, vars_cli, vars_cup,
                   metadata_socket, request_socket, b_pc, beacons, m_pc>>

\* metadata_server, select!: clients.join_next() takes a task that has ended.
MetadataJoin(i) ==
    /\ m_pc = "accept" /\ ~cancelled
    /\ i \in 1..Len(m_conns) /\ ~m_conns[i].open
    /\ m_conns' = [j \in 1..(Len(m_conns) - 1) |-> IF j < i THEN m_conns[j] ELSE m_conns[j + 1]]
    /\ UNCHANGED <<vars_asm, vars_srv, req_net, vars_cli, vars_cup,
                   metadata_socket, request_socket, b_pc, beacons, m_pc>>

\* metadata_server, select!: cancelled -> break; clients.shutdown() aborts
\* the tasks of the connections.
MetadataCancelled ==
    /\ m_pc = "accept" /\ cancelled
    /\ m_pc' = "done"
    /\ m_conns' = << >>
    /\ UNCHANGED <<vars_asm, vars_srv, req_net, vars_cli, vars_cup,
                   metadata_socket, request_socket, b_pc, beacons>>

\* server_discovery, first select! (biased): cancelled -> return.
BeaconCancelled ==
    /\ b_pc \in {"wait", "sleep"} /\ cancelled
    /\ b_pc' = "done"
    /\ UNCHANGED <<vars_asm, vars_srv, req_net, vars_cli, vars_cup,
                   metadata_socket, request_socket, beacons, m_pc, m_conns>>

\* server_discovery, first select!: both metadata_socket.wait() and
\* request_socket.wait() have returned; the record is encoded.
BeaconReady ==
    /\ b_pc = "wait" /\ ~cancelled
    /\ metadata_socket /\ request_socket
    /\ b_pc' = "send"
    /\ UNCHANGED <<vars_asm, vars_srv, req_net, vars_cli, vars_cup,
                   metadata_socket, request_socket, beacons, m_pc, m_conns>>

\* server_discovery, loop: socket.send(data).
BeaconSend ==
    /\ b_pc = "send"
    /\ beacons' = beacons + 1
    /\ b_pc' = "sleep"
    /\ UNCHANGED <<vars_asm, vars_srv, req_net, vars_cli, vars_cup,
                   metadata_socket, request_socket, m_pc, m_conns>>

\* server_discovery, loop, select!: the discovery interval has passed.
BeaconSleep ==
    /\ b_pc = "sleep" /\ ~cancelled
    /\ b_pc' = "send"
    /\ UNCHANGED <<vars_asm, vars_srv, req_net, vars_cli, vars_cup,
                   metadata_socket, request_socket, beacons, m_pc, m_conns>>

\* request_listener: UdpSocket::bind, then state.request_socket.set.
ListenerBind ==
    /\ l_pc = "bind"
    /\ request_socket' = TRUE
    /\ l_pc' = "recv"
    /\ UNCHANGED <<vars_asm, vars_cli, req_net, vars_cup, cancelled, vars_cfg, chan, l_ids,
                   vars_dsp, net, now, vars_obs,
                   metadata_socket, b_pc, beacons, m_pc, m_conns>>

(***************************************************************************)
(* The client's tasks: chunk_receiver and disk_writer                      *)
(* (src/bin/client/tasks.rs), for each client c, from the point where the  *)
(* image metadata is known.                                                *)
(***************************************************************************)
InitNoClients ==
    /\ req_net = {}
    /\ missing = << >> /\ assemblers = << >> /\ r_pc = << >>
    /\ to_disk = << >> /\ disk = << >> /\ w_pc = << >>
    /\ r_sleep = << >> /\ r_req_at = << >> /\ c_log = << >> /\ w_count = << >>
    /\ c_server = << >> /\ c_image = << >> /\ h_pc = << >> /\ f_pc = << >>
    /\ f_stream = << >> /\ f_eof = << >> /\ f_reads = << >> /\ o_file = << >>

\* image_size of disk_writer: the largest chunk.offset + chunk.size.
ImageSize == IF image = << >> THEN 0
             ELSE LET ends == {image[i].offset + image[i].size : i \in 1..Len(image)}
                  IN  CHOOSE e \in ends : \A x \in ends : x <= e

\* The clients have the discovery record and the image metadata, read in one
\* read_to_end, and their output files have the size of the image.
ClientsStarted(clients) ==
    /\ c_server = [c \in clients |-> TRUE]
    /\ c_image = [c \in clients |-> TRUE]
    /\ h_pc = [c \in clients |-> "done"]
    /\ f_pc = [c \in clients |-> "done"]
    /\ f_stream = [c \in clients |-> 0]
    /\ f_eof = [c \in clients |-> TRUE]
    /\ f_reads = [c \in clients |-> 1]
    /\ o_file = [c \in clients |-> "sized"]

\* The receiver's state before its loop (every index missing, no assembler)
\* and the writer's after set_len(image_size).
InitClients(clients) ==
    /\ ClientsStarted(clients)
    /\ req_net = {}
    /\ missing = [c \in clients |-> {i - 1 : i \in 1..Len(image)}]
    /\ assemblers = [c \in clients |-> << >>]
    /\ r_pc = [c \in clients |-> IF image = << >> THEN "done" ELSE "loop"]
    /\ to_disk = [c \in clients |-> << >>]
    /\ disk = [c \in clients |-> [i \in 1..ImageSize |-> 0]]
    /\ w_pc = [c \in clients |-> IF image = << >> THEN "done" ELSE "loop"]
    /\ r_sleep = [c \in clients |-> ReceiverPeriod]
    /\ r_req_at = [c \in clients |-> 0]
    /\ c_log = [c \in clients |-> << >>]
    /\ w_count = [c \in clients |-> 0]

\* The clients before any of their tasks has run.
ClientsNotStarted(clients) ==
    /\ req_net = {}
    /\ missing = [c \in clients |-> {}]
    /\ assemblers = [c \in clients |-> << >>]
    /\ r_pc = [c \in clients |-> "start"]
    /\ to_disk = [c \in clients |-> << >>]
    /\ disk = [c \in clients |-> << >>]
    /\ w_pc = [c \in clients |-> "start"]
    /\ w_count = [c \in clients |-> 0]
    /\ r_sleep = [c \in clients |-> 0]
    /\ r_req_at = [c \in clients |-> 0]
    /\ c_log = [c \in clients |-> << >>]
    /\ c_server = [c \in clients |-> FALSE]
    /\ c_image = [c \in clients |-> FALSE]
    /\ h_pc = [c \in clients |-> "recv"]
    /\ f_pc = [c \in clients |-> "wait"]
    /\ f_stream = [c \in clients |-> 0]
    /\ f_eof = [c \in clients |-> FALSE]
    /\ f_reads = [c \in clients |-> 0]
    /\ o_file = [c \in clients |-> "absent"]

\* server_discovery (client), select!: a datagram is received; one that
\* decodes as a ServerDiscovery of the client's address family is published.
DiscoveryRecv(c, valid) ==
    /\ h_pc[c] = "recv" /\ ~cancelled
    /\ IF valid
       THEN /\ c_server' = [c_server EXCEPT ![c] = TRUE]
            /\ h_pc' = [h_pc EXCEPT ![c] = "done"]
       ELSE UNCHANGED <<c_server, h_pc>>
    /\ UNCHANGED <<vars_asm, vars_srv, req_net, vars_cli, vars_sup,
                   c_image, f_pc, f_stream, f_eof, f_reads, o_file>>

\* server_discovery (client), select! (biased): cancelled -> Err.
DiscoveryCancelled(c) ==
    /\ h_pc[c] = "recv" /\ cancelled
    /\ h_pc' = [h_pc EXCEPT ![c] = "error"]
    /\ UNCHANGED <<vars_asm, vars_srv, req_net, vars_cli, vars_sup,
                   c_server, c_image, f_pc, f_stream, f_eof, f_reads, o_file>>

\* metadata_transfer, either select! (biased): cancelled -> return Ok.
FetchCancelled(c) ==
    /\ f_pc[c] \in {"wait", "read"} /\ cancelled
    /\ f_pc' = [f_pc EXCEPT ![c] = "done"]
    /\ UNCHANGED <<vars_asm, vars_srv, req_net, vars_cli, vars_sup,
                   c_server, c_image, h_pc, f_stream, f_eof, f_reads, o_file>>

\* metadata_transfer: state.server.wait() returns.
FetchServer(c) ==
    /\ f_pc[c] = "wait" /\ ~cancelled
    /\ c_server[c]
    /\ f_pc' = [f_pc EXCEPT ![c] = "connect"]
    /\ UNCHANGED <<vars_asm, vars_srv, req_net, vars_cli, vars_sup,
                   c_server, c_image, h_pc, f_stream, f_eof, f_reads, o_file>>

\* metadata_transfer: TcpStream::connect(server.metadata_socket).await?
FetchConnect(c, ok) ==
    /\ f_pc[c] = "connect"
    /\ f_pc' = [f_pc EXCEPT ![c] = IF ok THEN "read" ELSE "error"]
    /\ UNCHANGED <<vars_asm, vars_srv, req_net, vars_cli, vars_sup,
                   c_server, c_image, h_pc, f_stream, f_eof, f_reads, o_file>>

\* The server's task of the connection writes `written` bytes of the record
\* (MetadataWrite), or ends and closes the connection, the record whole or not.
StreamSend(c, written) ==
    /\ f_pc[c] = "read" /\ ~f_eof[c]
    /\ written \in 1..(MetadataLen(image) - f_stream[c])
    /\ f_stream' = [f_stream EXCEPT ![c] = @ + written]
    /\ UNCHANGED <<vars_asm, vars_srv, req_net, vars_cli, vars_sup,
                   c_server, c_image, h_pc, f_pc, f_eof, f_reads, o_file>>

StreamClose(c) ==
    /\ f_pc[c] = "read" /\ ~f_eof[c]
    /\ f_eof' = [f_eof EXCEPT ![c] = TRUE]
    /\ UNCHANGED <<vars_asm, vars_srv, req_net, vars_cli, vars_sup,
                   c_server, c_image, h_pc, f_pc, f_stream, f_reads, o_file>>

\* postcard::from_bytes::<ImageMetadata>(&buf) for buf the first n bytes of
\* the record: every chunk announced by the count must be there.
decodes_metadata(n) == n >= MetadataLen(image)

\* metadata_transfer, one turn of its loop: read_to_end returns at the end of
\* the stream with the bytes not read before; if they decode, the metadata is
\* published and the task returns, else the loop goes on.
FetchRead(c) ==
    /\ f_pc[c] = "read" /\ ~cancelled
    /\ f_eof[c]
    /\ f_reads' = [f_reads EXCEPT ![c] = @ + 1]
    /\ f_stream' = [f_stream EXCEPT ![c] = 0]
    /\ IF decodes_metadata(f_stream[c])
       THEN /\ c_image' = [c_image EXCEPT ![c] = TRUE]
            /\ f_pc' = [f_pc EXCEPT ![c] = "done"]
       ELSE UNCHANGED <<c_image, f_pc>>
    /\ UNCHANGED <<vars_asm, vars_srv, req_net, vars_cli, vars_sup,
                   c_server, h_pc, f_eof, o_file>>

\* chunk_receiver: state.server.wait() returns; the sockets are bound.
ReceiverServer(c) ==
    /\ r_pc[c] = "start"
    /\ c_server[c]
    /\ r_pc' = [r_pc EXCEPT ![c] = "wait_image"]
    /\ UNCHANGED <<vars_asm, vars_srv, req_net, vars_boot, missing, assemblers, to_disk, disk,
                   w_pc, w_count, r_sleep, r_req_at, c_log>>

\* chunk_receiver: state.image.wait() returns; `missing` gets every index.
ReceiverImage(c) ==
    /\ r_pc[c] = "wait_image"
    /\ c_image[c]
    /\ missing' = [missing EXCEPT ![c] = {i - 1 : i \in 1..Len(image)}]
    /\ r_pc' = [r_pc EXCEPT ![c] = IF image = << >> THEN "done" ELSE "loop"]
    /\ r_sleep' = [r_sleep EXCEPT ![c] = now + ReceiverPeriod]
    /\ UNCHANGED <<vars_asm, vars_srv, req_net, vars_boot, assemblers, to_disk, disk,
                   w_pc, w_count, r_req_at, c_log>>

\* disk_writer: File::options().write(true).create(true).truncate(false)
\* .open(&state.args.file), the first statement of the task.
WriterOpen(c) ==
    /\ w_pc[c] = "start"
    /\ w_pc' = [w_pc EXCEPT ![c] = "wait_image"]
    /\ o_file' = [o_file EXCEPT ![c] = IF @ = "absent" THEN "created" ELSE @]
    /\ UNCHANGED <<vars_asm, vars_srv, req_net, vars_cli_but_w_pc, vars_sup,
                   c_server, c_image, h_pc, f_pc, f_stream, f_eof, f_reads>>

\* disk_writer: state.image.wait() returns; without chunks the task returns,
\* else file.set_len(image_size).
WriterImage(c) ==
    /\ w_pc[c] = "wait_image"
    /\ c_image[c]
    /\ IF image = << >>
       THEN /\ w_pc' = [w_pc EXCEPT ![c] = "done"]
            /\ UNCHANGED <<o_file, disk>>
       ELSE /\ w_pc' = [w_pc EXCEPT ![c] = "loop"]
            /\ o_file' = [o_file EXCEPT ![c] = "sized"]
            /\ disk' = [disk EXCEPT ![c] = [i \in 1..ImageSize |-> 0]]
    /\ UNCHANGED <<vars_asm, vars_srv, req_net, vars_sup, missing, assemblers, r_pc, to_disk,
                   w_count, r_sleep, r_req_at, c_log,
                   c_server, c_image, h_pc, f_pc, f_stream, f_eof, f_reads>>

\* The ids of `missing` in ascending order, all of them.
RECURSIVE take_uncapped(_, _)
take_uncapped(S, n) ==
    IF S = {} THEN << >>
    ELSE <<SetMin(S)>> \o take_uncapped(S \ {SetMin(S)}, n)

\* missing.iter().take(ChunkRequest::CAPACITY).copied().collect()
RECURSIVE TakeSmallest(_, _)
TakeSmallest(S, n) ==
    IF S = {} \/ n = 0 THEN << >>
    ELSE <<SetMin(S)>> \o TakeSmallest(S \ {SetMin(S)}, n - 1)

\* while assemblers.len() > 40 { assemblers.pop_last(); }
RECURSIVE pop_last_while_over(_)
pop_last_while_over(m) ==
    IF Cardinality(DOMAIN m) > AssemblerCap
    THEN LET last == CHOOSE x \in DOMAIN m : \A y \in DOMAIN m : y <= x
         IN  pop_last_while_over([k \in (DOMAIN m) \ {last} |-> m[k]])
    ELSE m

\* while assemblers.len() > 40 { assemblers.pop_first(); }
RECURSIVE PopWhileOver(_)
PopWhileOver(m) ==
    IF Cardinality(DOMAIN m) > AssemblerCap
    THEN PopWhileOver([k \in (DOMAIN m) \ {SetMin(DOMAIN m)} |-> m[k]])
    ELSE m

\* BTreeMap::insert and BTreeMap::remove
MapInsert(m, key, value) == [k \in (DOMAIN m) \cup {key} |-> IF k = key THEN value ELSE m[k]]
MapRemove(m, key) == [k \in (DOMAIN m) \ {key} |-> m[k]]

\* A variant of disk_write that does not seek to the offset.
disk_write_no_seek(bytes, offset, data) == copy_from_slice(bytes, 0, data)

\* disk_writer: file.seek(SeekFrom::Start(offset)) and the loop of file.write
\* until all of data is written.
disk_write(bytes, offset, data) == copy_from_slice(bytes, offset, data)

\* A variant of hash_matches that accepts any bytes.
hash_matches_any(chunk_data, chunk) == TRUE

\* chunk_receiver: XxHash3_64::oneshot(&chunk_data) != chunk.hash, negated.
hash_matches(chunk_data, chunk) == Hash(chunk_data) = chunk.hash

\* chunk_receiver, select!: the 100 ms sleep has elapsed; the request for the
\* first ids of `missing` is sent on the request socket.
ReceiverTick(c) ==
    /\ r_pc[c] = "loop" /\ ~cancelled
    /\ req_net' = req_net \cup {TakeSmallest(missing[c], RequestCapacity)}
    /\ r_sleep' = [r_sleep EXCEPT ![c] = now + ReceiverPeriod]
    /\ r_req_at' = [r_req_at EXCEPT ![c] = now]
    /\ UNCHANGED <<vars_asm, vars_boot, vars_srv, missing, assemblers, r_pc, to_disk, disk, w_pc, w_count, c_log>>

\* The record of the assemblers popped by pop_first, smallest id first.
Evictions(pops) ==
    LET ids == TakeSmallest(pops, Cardinality(pops))
    IN  [i \in 1..Len(ids) |-> [ev |-> "evict", id |-> ids[i], pair |-> << >>]]

\* chunk_receiver, select!: a datagram that decodes as the ChunkData fragment
\* is received and handled up to the next turn of the loop. `keep` says
\* whether the network holds a further copy of the datagram.
ReceiverRecv(c, fragment, keep, obs) ==
    /\ r_pc[c] = "loop" /\ ~cancelled
    /\ fragment \in net[c]
    /\ net' = [net EXCEPT ![c] = IF keep THEN @ ELSE @ \ {fragment}]
    /\ IF fragment.chunk >= Len(image)
       THEN \* state.image.get().unwrap().chunks[fragment.chunk] panics
            /\ r_pc' = [r_pc EXCEPT ![c] = "panic"]
            /\ UNCHANGED <<missing, assemblers, to_disk, c_log>>
       ELSE LET chunk == image[fragment.chunk + 1]
                have  == fragment.chunk \in DOMAIN assemblers[c]
                map1  == IF have THEN assemblers[c]
                         ELSE MapInsert(PopWhileOver(assemblers[c]), fragment.chunk,
                                        ChunkAssembler_new(chunk.size))
                added == add_fragment(map1[fragment.chunk], fragment.offset, fragment.data)
                map2  == [map1 EXCEPT ![fragment.chunk] = added.asm]
                pops  == IF have THEN {}
                         ELSE DOMAIN assemblers[c] \ DOMAIN PopWhileOver(assemblers[c])
                log1  == IF obs THEN c_log[c] \o Evictions(pops) ELSE c_log[c]
            IN  IF ~added.ok
                THEN \* the fragment is dropped
                     /\ assemblers' = [assemblers EXCEPT ![c] = map2]
                     /\ c_log' = [c_log EXCEPT ![c] = log1]
                     /\ UNCHANGED <<missing, to_disk, r_pc>>
                ELSE IF ~is_complete(added.asm)
                THEN /\ assemblers' = [assemblers EXCEPT ![c] = map2]
                     /\ c_log' = [c_log EXCEPT ![c] = log1]
                     /\ UNCHANGED <<missing, to_disk, r_pc>>
                ELSE IF ~hash_matches(complete(added.asm), chunk)
                THEN \* corrupted chunk: discarded
                     /\ assemblers' = [assemblers EXCEPT ![c] = MapRemove(map2, fragment.chunk)]
                     /\ c_log' = [c_log EXCEPT ![c] = log1]
                     /\ UNCHANGED <<missing, to_disk, r_pc>>
                ELSE IF w_pc[c] # "loop"
                THEN \* the channel to the disk writer is closed: break
                     /\ assemblers' = [assemblers EXCEPT ![c] = MapRemove(map2, fragment.chunk)]
                     /\ r_pc' = [r_pc EXCEPT ![c] = "done"]
                     /\ c_log' = [c_log EXCEPT ![c] = log1]
                     /\ UNCHANGED <<missing, to_disk>>
                ELSE /\ Len(to_disk[c]) < DiskChanCap
                     /\ assemblers' = [assemblers EXCEPT ![c] = MapRemove(map2, fragment.chunk)]
                     /\ to_disk' = [to_disk EXCEPT
                                      ![c] = Append(@, <<chunk.offset, complete(added.asm)>>)]
                     /\ missing' = [missing EXCEPT ![c] = @ \ {fragment.chunk}]
                     /\ c_log' = [c_log EXCEPT
                                    ![c] = IF obs
                                           THEN Append(log1, [ev |-> "hand", id |-> fragment.chunk,
                                                              pair |-> <<chunk.offset, complete(added.asm)>>])
                                           ELSE log1]
                     /\ r_pc' = [r_pc EXCEPT
                                   ![c] = IF missing[c] \ {fragment.chunk} = {}
                                          THEN "done" ELSE "loop"]
    /\ UNCHANGED <<vars_asm, vars_boot, cancelled, vars_cfg, chan, vars_lst, vars_dsp, now, vars_obs,
                   req_net, disk, w_pc, w_count, r_req_at>>
    /\ r_sleep' = IF r_pc'[c] = "loop" THEN [r_sleep EXCEPT ![c] = now + ReceiverPeriod]
                  ELSE r_sleep

\* disk_writer, select!: a pair is received from the channel and written.
WriterWrite(c, obs) ==
    /\ w_pc[c] = "loop" /\ ~cancelled
    /\ to_disk[c] # << >>
    /\ LET pair == Head(to_disk[c])
       IN  disk' = [disk EXCEPT ![c] = disk_write(@, pair[1], pair[2])]
    /\ to_disk' = [to_disk EXCEPT ![c] = Tail(@)]
    /\ w_count' = [w_count EXCEPT ![c] = @ + Len(Head(to_disk[c])[2])]
    /\ c_log' = [c_log EXCEPT
                   ![c] = IF obs
                          THEN Append(@, [ev |-> "write", id |-> 0, pair |-> Head(to_disk[c])])
                          ELSE @]
    /\ UNCHANGED <<vars_asm, vars_boot, vars_srv, req_net, missing, assemblers, r_pc, w_pc,
                   r_sleep, r_req_at>>

\* disk_writer, select!: the channel is empty and its sender dropped: break.
WriterClosed(c) ==
    /\ w_pc[c] = "loop" /\ ~cancelled
    /\ to_disk[c] = << >> /\ r_pc[c] # "loop"
    /\ w_pc' = [w_pc EXCEPT ![c] = "done"]
    /\ UNCHANGED <<vars_asm, vars_boot, vars_srv, req_net, missing, assemblers, r_pc, to_disk, disk,
                   w_count, r_sleep, r_req_at, c_log>>

\* disk_writer, select!: the report's timer is due (a second has passed); the
\* report computes image_size - count in u64, which panics when count is the
\* larger and the build checks overflow and wraps when it does not; the
\* panic ends chunk_transfer, the receiver with it.
WriterReport(c, overflow_checks) ==
    /\ w_pc[c] = "loop" /\ ~cancelled
    /\ IF w_count[c] > ImageSize /\ overflow_checks
       THEN /\ w_pc' = [w_pc EXCEPT ![c] = "panic"]
            /\ r_pc' = [r_pc EXCEPT ![c] = "panic"]
       ELSE UNCHANGED <<w_pc, r_pc>>
    /\ UNCHANGED <<vars_asm, vars_boot, vars_srv, req_net, missing, assemblers, to_disk, disk,
                   w_count, r_sleep, r_req_at, c_log>>

\* The network loses a datagram in flight to client c, or a request.
LoseFragment(c, fragment) ==
    /\ fragment \in net[c]
    /\ net' = [net EXCEPT ![c] = @ \ {fragment}]
    /\ UNCHANGED <<vars_asm, vars_boot, cancelled, vars_cfg, chan, vars_lst, vars_dsp, now, vars_obs,
                   req_net, vars_cli>>

LoseRequest(ids) ==
    /\ ids \in req_net
    /\ req_net' = req_net \ {ids}
    /\ UNCHANGED <<vars_asm, vars_boot, vars_srv, vars_cli>>

\* The network alters the payload of a datagram in flight to client c.
Corrupted(data) == [i \in DOMAIN data |-> (data[i] + 1) % 256]
CorruptFragment(c, fragment) ==
    /\ fragment \in net[c]
    /\ net' = [net EXCEPT ![c] = (@ \ {fragment})
                                  \cup {[fragment EXCEPT !.data = Corrupted(@)]}]
    /\ UNCHANGED <<vars_asm, vars_boot, cancelled, vars_cfg, chan, vars_lst, vars_dsp, now, vars_obs,
                   req_net, vars_cli>>

\* A host sends a datagram that decodes as ChunkData to the transfer group.
ForeignFragment(c, fragment) ==
    /\ fragment \notin net[c]
    /\ net' = [net EXCEPT ![c] = @ \cup {fragment}]
    /\ UNCHANGED <<vars_asm, vars_boot, cancelled, vars_cfg, chan, vars_lst, vars_dsp, now, vars_obs,
                   req_net, vars_cli>>

(***************************************************************************)
(* SpecAsm: one assembler and any sequence of add_fragment calls.          *)
(***************************************************************************)
NoArgs == [chunk_size |-> 1, max_udp_payload_size |-> 0, flood_speed |-> 1]

InitAsm ==
    /\ \E size \in 0..MaxSize : asm = ChunkAssembler_new(size)
    /\ hist = << >>
    /\ InitServer(<< >>, NoArgs, {})
    /\ InitNoClients

\* One call add_fragment(offset, data), in bounds or not, empty or not.
AsmAdd ==
    /\ Len(hist) < MaxCalls
    /\ \E offset \in 0..(Len(asm.data) + 1), n \in 0..(Len(asm.data) + 1) :
         \E data \in Payloads(n) :
            LET r == add_fragment(asm, offset, data)
            IN  /\ asm' = r.asm
                /\ hist' = Append(hist, [offset |-> offset, data |-> data, ok |-> r.ok])
    /\ UNCHANGED <<vars_boot, vars_srv, req_net, vars_cli>>

NextAsm == AsmAdd

SpecAsm == InitAsm /\ [][NextAsm]_vars

(***************************************************************************)
(* SpecDisp: the listener and the dispatcher serving an image of three     *)
(* chunks; any request datagrams, ids out of range included; no clock.     *)
(* SpecPace: the same under the clock, with requests for single chunks.    *)
(***************************************************************************)
DispFile == <<11, 12, 13>>
DispArgs == [chunk_size |-> 1, max_udp_payload_size |-> 22, flood_speed |-> 4 * DispFlood]

\* The ChunkRequest datagrams the clients may send: 1..n ids, each at most
\* the number of chunks (which is the first id out of range).
Requests(n) == UNION {[1..k -> 0..Len(image)] : k \in 1..n}

InitDisp ==
    /\ asm = ChunkAssembler_new(0) /\ hist = << >>
    /\ InitServer(DispFile, DispArgs, {0})
    /\ InitNoClients

DRecv ==
    \E ids \in Requests(MaxReqLen) :
        /\ nreq < MaxReqs
        /\ last_req.total + Len(ids) <= MaxIds
        /\ ListenerRecv(ids, TRUE)
        /\ UNCHANGED req_net
DListenerSend == ListenerSend(TRUE)
DLoop == DispLoop(TRUE)
DSelect == DispSelect(TRUE)
DSend == DispSend(FALSE, TRUE)

NextDisp ==
    \/ DRecv \/ DListenerSend
    \/ DLoop \/ DSelect \/ DSend

SpecDisp == InitDisp /\ [][NextDisp]_vars

PRecv ==
    \E ids \in Requests(1) :
        nreq < MaxPaceReqs /\ ListenerRecv(ids, TRUE) /\ UNCHANGED req_net
PSend == DispSend(TRUE, TRUE)

NextPace ==
    \/ Cancel \/ ListenerCancelled \/ PRecv \/ DListenerSend
    \/ DLoop \/ DSelect \/ PSend \/ Tick

SpecPace == InitDisp /\ [][NextPace]_vars

(***************************************************************************)
(* SpecXfer: the server's listener and dispatcher, the network, and the    *)
(* receiver and disk writer of each client, transferring an image of two   *)
(* chunks of two fragments each.  The network delivers the datagrams in    *)
(* any order, loses them and duplicates them.  No cancellation, no clock.  *)
(***************************************************************************)
Clients == 1..NClients
XferFile == <<11, 12, 13, 14>>
XferArgs == [chunk_size |-> 2, max_udp_payload_size |-> 22, flood_speed |-> 1]

InitXfer ==
    /\ asm = ChunkAssembler_new(0) /\ hist = << >>
    /\ InitServer(XferFile, XferArgs, Clients)
    /\ InitClients(Clients)

\* The 100 ms timer of a receiver fires; the model lets it fire once the
\* earlier request has left the network and while the server has fewer than
\* MaxBacklog ids of it left to take.
XTick == \E c \in Clients :
    /\ req_net = {}
    /\ Len(chan) + Len(l_ids) < MaxBacklog
    /\ ReceiverTick(c)
\* The receiver takes a datagram while the disk writer is at most
\* MaxDiskBacklog pairs behind.
XReceive(c, fragment, keep) ==
    /\ Len(to_disk[c]) < MaxDiskBacklog
    /\ ReceiverRecv(c, fragment, keep, FALSE)
XRecv == \E ids \in req_net :
    /\ ListenerRecv(ids, FALSE)
    /\ req_net' = req_net \ {ids}
XLoseRequest == \E ids \in req_net : LoseRequest(ids)
XListenerSend == ListenerSend(FALSE)
XLoop == DispLoop(FALSE)
XSelect == DispSelect(FALSE)
XSend == DispSend(FALSE, FALSE)
XDeliver == \E c \in Clients : \E fragment \in net[c] : XReceive(c, fragment, FALSE)
XDuplicate == \E c \in Clients : \E fragment \in net[c] : XReceive(c, fragment, TRUE)
XLose == \E c \in Clients : \E fragment \in net[c] : LoseFragment(c, fragment)
\* The model follows the writer until count has passed image_size.
XWrite == \E c \in Clients : w_count[c] <= ImageSize /\ WriterWrite(c, FALSE)
XClosed == \E c \in Clients : WriterClosed(c)

NextXfer ==
    \/ XTick \/ XRecv \/ XLoseRequest \/ XListenerSend
    \/ XLoop \/ XSelect \/ XSend
    \/ XDeliver \/ XDuplicate \/ XLose
    \/ XWrite \/ XClosed

SpecXfer == InitXfer /\ [][NextXfer]_vars

(***************************************************************************)
(* SpecCorrupt: the transfer of an image of one chunk of two fragments     *)
(* over a network that delivers the datagrams in any order, loses them,    *)
(* and alters the payload of a datagram the server sent.                   *)
(***************************************************************************)
CorruptFile == <<11, 12>>

InitCorrupt ==
    /\ asm = ChunkAssembler_new(0) /\ hist = << >>
    /\ InitServer(CorruptFile, XferArgs, Clients)
    /\ InitClients(Clients)

\* The fragment is as the server sent it.
Genuine(fragment) ==
    /\ fragment.chunk < Len(image)
    /\ fragment.data = SubSeq(ChunkBytes(fragment.chunk), fragment.offset + 1,
                              fragment.offset + Len(fragment.data))
XCorrupt == \E c \in Clients : \E fragment \in net[c] :
    Genuine(fragment) /\ CorruptFragment(c, fragment)

NextCorrupt ==
    \/ XTick \/ XRecv \/ XLoseRequest \/ XListenerSend
    \/ XLoop \/ XSelect \/ XSend
    \/ XDeliver \/ XLose \/ XCorrupt
    \/ XWrite \/ XClosed

SpecCorrupt == InitCorrupt /\ [][NextCorrupt]_vars

(***************************************************************************)
(* SpecForeign: the transfer of the one-chunk image on a multicast group   *)
(* to which another host sends a datagram that decodes as ChunkData, its   *)
(* chunk index in the image or just past it.                               *)
(***************************************************************************)
Foreign(fragment) == fragment.data = <<0>>

XForeign == \E c \in Clients : \E chunk \in 0..Len(image) :
    /\ \A fragment \in net[c] : ~Foreign(fragment)
    /\ ForeignFragment(c, [chunk |-> chunk, offset |-> 0, data |-> <<0>>])

NextForeign ==
    \/ XTick \/ XRecv \/ XLoseRequest \/ XListenerSend
    \/ XLoop \/ XSelect \/ XSend
    \/ XDeliver \/ XLose \/ XForeign
    \/ XWrite \/ XClosed

SpecForeign == InitCorrupt /\ [][NextForeign]_vars

(***************************************************************************)
(* SpecNack: the transfer of the one-chunk image under the clock.  The     *)
(* receiver's select! is biased: when the sleep is due it sends a request, *)
(* and it takes a datagram only while the sleep is not due; each turn of   *)
(* the loop makes a new sleep.  Time does not pass a sleep that is due.    *)
(* Another client that misses the whole image sends requests as well.      *)
(***************************************************************************)
NTick == \E c \in Clients : now >= r_sleep[c] /\ ReceiverTick(c)
NRecvOther ==
    /\ Len(chan) + Len(l_ids) < MaxBacklog
    /\ ListenerRecv(TakeSmallest(0..(Len(image) - 1), RequestCapacity), FALSE)
    /\ UNCHANGED req_net
NDeliver == \E c \in Clients : \E fragment \in net[c] :
    now < r_sleep[c] /\ XReceive(c, fragment, FALSE)
NTime ==
    /\ \A c \in Clients : r_pc[c] = "loop" => now < r_sleep[c]
    /\ Tick

NextNack ==
    \/ NTick \/ NRecvOther \/ XRecv \/ XLoseRequest \/ XListenerSend
    \/ XLoop \/ XSelect \/ XSend
    \/ NDeliver \/ XLose
    \/ XWrite \/ XClosed \/ NTime

SpecNack == InitCorrupt /\ [][NextNack]_vars

(***************************************************************************)
(* SpecReach and SpecLoss: the transfer of an image of LossChunks chunks   *)
(* of two fragments each to one client.                                    *)
(*                                                                         *)
(* SpecReach starts where the tasks start and follows the transfer under a *)
(* network that loses every fragment of chunks 0 and 1, delivers the other *)
(* fragments, and delivers the first fragment of each other chunk a second *)
(* time after the chunk was completed.  It reaches LossStart: the client   *)
(* misses chunks 0 and 1, has written the other chunks, and holds for each *)
(* of them an assembler with the first fragment only (the receiver makes   *)
(* an assembler for any chunk of the image, missing or not).               *)
(*                                                                         *)
(* SpecLoss starts at LossStart and follows the transfer under a network   *)
(* that is lossy and fair.                                                 *)
(***************************************************************************)
LossFile == [i \in 1..(2 * LossChunks) |-> 10 + i]
LossMissing == {0, 1}
\* The fragments of the missing chunks: the only ones the client asks for.
LossFragments ==
    {[chunk |-> i, offset |-> o, data |-> <<LossFile[2 * i + o + 1]>>] :
        i \in LossMissing, o \in 0..1}

InitReach ==
    /\ asm = ChunkAssembler_new(0) /\ hist = << >>
    /\ InitServer(LossFile, XferArgs, Clients)
    /\ InitClients(Clients)

\* Nothing is in flight and the dispatcher waits in its select!.
RQuiet ==
    /\ req_net = {} /\ chan = << >> /\ l_ids = << >> /\ d_pc = "select"
    /\ \A c \in Clients : net[c] = {} /\ to_disk[c] = << >>

RTick == \E c \in Clients : RQuiet /\ ReceiverTick(c)
\* The dispatcher's pacing: a fragment is sent once the fragments of the
\* chunks sent before have left the network.
RSend == (\A c \in Clients : \A fragment \in net[c] : fragment.chunk = d_next) /\ XSend
\* The first fragment of a chunk arrives, and a copy of it stays in flight.
RDuplicate == \E c \in Clients : \E fragment \in net[c] :
    /\ fragment.chunk \notin LossMissing /\ fragment.offset = 0
    /\ fragment.chunk \in missing[c] /\ fragment.chunk \notin DOMAIN assemblers[c]
    /\ XReceive(c, fragment, TRUE)
\* The second fragment arrives after the first; the copy of the first
\* arrives after the chunk was completed.
RDeliver == \E c \in Clients : \E fragment \in net[c] :
    /\ fragment.chunk \notin LossMissing
    /\ IF fragment.offset = 0 THEN fragment.chunk \notin missing[c]
                              ELSE fragment.chunk \in DOMAIN assemblers[c]
    /\ XReceive(c, fragment, FALSE)
RLose == \E c \in Clients : \E fragment \in net[c] :
    fragment.chunk \in LossMissing /\ LoseFragment(c, fragment)

NextReach ==
    \/ RTick \/ XRecv \/ XListenerSend \/ XLoop \/ XSelect \/ RSend
    \/ RDuplicate \/ RDeliver \/ RLose \/ XWrite

SpecReach == InitReach /\ [][NextReach]_vars

\* The state SpecReach reaches once the last chunk but 0 and 1 is written:
\* the dispatcher has served chunk LossChunks - 1 last.
LossStart ==
    /\ asm = ChunkAssembler_new(0) /\ hist = << >>
    /\ ServerStarted /\ ClientsStarted(Clients)
    /\ cancelled = FALSE /\ args = XferArgs /\ file = LossFile
    /\ image = compute_image_metadata(LossFile, XferArgs.chunk_size)
    /\ chan = << >> /\ l_pc = "recv" /\ l_ids = << >>
    /\ queue = {} /\ last_id = LossChunks - 1 /\ sleep = 0
    /\ d_pc = "select" /\ d_next = LossChunks - 1 /\ d_count = 2
    /\ fs_l = FragmentSearch(0, U16Max, XferArgs.max_udp_payload_size)
    /\ fs_r = fs_l + 1
    /\ net = [c \in Clients |-> {}]
    /\ now = 0
    /\ served = << >> /\ fresh = {} /\ nreq = 0 /\ last_req = NoRequest
    /\ sends = << >>
    /\ req_net = {}
    /\ missing = [c \in Clients |-> LossMissing]
    /\ assemblers = [c \in Clients |->
          [k \in (0..(LossChunks - 1)) \ LossMissing |->
              add_fragment(ChunkAssembler_new(2), 0, <<LossFile[2 * k + 1]>>).asm]]
    /\ r_pc = [c \in Clients |-> "loop"]
    /\ to_disk = [c \in Clients |-> << >>]
    /\ disk = [c \in Clients |->
          [i \in 1..(2 * LossChunks) |->
              IF (i - 1) \div 2 \in LossMissing THEN 0 ELSE LossFile[i]]]
    /\ w_pc = [c \in Clients |-> "loop"]
    /\ r_sleep = [c \in Clients |-> ReceiverPeriod]
    /\ r_req_at = [c \in Clients |-> 0]
    /\ c_log = [c \in Clients |-> << >>]
    /\ w_count = [c \in Clients |-> 2 * (LossChunks - Cardinality(LossMissing))]

InitLoss == LossStart

NextLoss ==
    \/ XTick \/ XRecv \/ XLoseRequest \/ XListenerSend
    \/ XLoop \/ XSelect \/ XSend
    \/ XDeliver \/ XLose
    \/ XWrite \/ XClosed

\* The tasks of the server and of the client are scheduled (tokio); a timer
\* that stays due fires; a request or a fragment that is in flight again
\* and again is eventually received.
FairLoss ==
    /\ WF_vars(XTick) /\ SF_vars(XRecv) /\ WF_vars(XListenerSend)
    /\ WF_vars(XLoop) /\ WF_vars(XSelect) /\ WF_vars(XSend)
    /\ WF_vars(XWrite) /\ WF_vars(XClosed)
    /\ \A c \in Clients : \A fragment \in LossFragments :
          SF_vars(XReceive(c, fragment, FALSE))

SpecLoss == InitLoss /\ [][NextLoss]_vars /\ FairLoss

(***************************************************************************)
(* SpecEvict: the transfer of SpecLoss with the receiver and the writer    *)
(* observed, for at most MaxLog events.                                    *)
(***************************************************************************)
EDeliver == \E c \in Clients : \E fragment \in net[c] :
    /\ Len(c_log[c]) < MaxLog
    /\ Len(to_disk[c]) < MaxDiskBacklog
    /\ ReceiverRecv(c, fragment, FALSE, TRUE)
EWrite == \E c \in Clients : w_count[c] <= ImageSize /\ WriterWrite(c, TRUE)

NextEvict ==
    \/ XTick \/ XRecv \/ XLoseRequest \/ XListenerSend
    \/ XLoop \/ XSelect \/ XSend
    \/ EDeliver \/ XLose
    \/ EWrite \/ XClosed

SpecEvict == LossStart /\ [][NextEvict]_vars

(***************************************************************************)
(* SpecWrite: a transfer of a chunk of two bytes and a chunk of one byte,   *)
(* as in SpecXfer without losses of requests and                           *)
(* duplicates, with another client whose requests name every chunk, the    *)
(* writer's report, and the receiver and the writer observed until         *)
(* MaxHands pairs were handed to the writer.                               *)
(***************************************************************************)
WriteFile == <<11, 12, 13>>

InitWrite ==
    /\ asm = ChunkAssembler_new(0) /\ hist = << >>
    /\ InitServer(WriteFile, XferArgs, Clients)
    /\ InitClients(Clients)

Hands(c) == SelectSeq(c_log[c], LAMBDA e : e.ev = "hand")
Writes(c) == SelectSeq(c_log[c], LAMBDA e : e.ev = "write")

WDeliver == \E c \in Clients : \E fragment \in net[c] :
    /\ Len(Hands(c)) < MaxHands
    /\ Len(to_disk[c]) < MaxDiskBacklog
    /\ ReceiverRecv(c, fragment, FALSE, TRUE)
WWrite == \E c \in Clients : WriterWrite(c, TRUE)
WReport == \E c \in Clients : \E overflow_checks \in BOOLEAN :
    WriterReport(c, overflow_checks)

NextWrite ==
    \/ XTick \/ NRecvOther \/ XRecv \/ XListenerSend
    \/ XLoop \/ XSelect \/ XSend
    \/ WDeliver \/ XLose
    \/ WWrite \/ XClosed \/ WReport

SpecWrite == InitWrite /\ [][NextWrite]_vars

(***************************************************************************)
(* SpecErr: the listener and the dispatcher of SpecDisp, with requests for *)
(* single chunks, a transmission that may fail, and cancellation.          *)
(***************************************************************************)
NextErr ==
    \/ Cancel \/ ListenerCancelled \/ PRecv \/ DListenerSend
    \/ DLoop \/ DSelect \/ DSend \/ DispSendFail

SpecErr == InitDisp /\ [][NextErr]_vars

(***************************************************************************)
(* SpecExit: the listener and the dispatcher of SpecErr with requests of   *)
(* up to two ids; the listener's task is scheduled.                        *)
(***************************************************************************)
ERecv ==
    \E ids \in Requests(2) :
        nreq < MaxPaceReqs /\ ListenerRecv(ids, TRUE) /\ UNCHANGED req_net

NextExit ==
    \/ Cancel \/ ListenerCancelled \/ ERecv \/ DListenerSend
    \/ DLoop \/ DSelect \/ DSend \/ DispSendFail

FairExit == WF_vars(ListenerCancelled) /\ WF_vars(DListenerSend)

SpecExit == InitDisp /\ [][NextExit]_vars /\ FairExit

(***************************************************************************)
(* SpecStart: the session main starts. It spawns server_discovery and      *)
(* metadata_server and nothing else: chunk_request_server is not spawned   *)
(* (l_pc = d_pc = "none"), so the beacon's steps after its wait            *)
(* (BeaconReady, BeaconSend, BeaconSleep) are never enabled.               *)
(***************************************************************************)
StartFile == <<11, 12, 13>>
StartArgs == [chunk_size |-> 3, max_udp_payload_size |-> 22, flood_speed |-> 1]

InitStart ==
    /\ asm = ChunkAssembler_new(0) /\ hist = << >>
    /\ ServerNotStarted
    /\ cancelled = FALSE
    /\ args = StartArgs /\ file = StartFile
    /\ image = compute_image_metadata(StartFile, StartArgs.chunk_size)
    /\ chan = << >> /\ l_pc = "none" /\ l_ids = << >>
    /\ queue = {} /\ last_id = 0 /\ sleep = 0
    /\ d_pc = "none" /\ d_next = 0 /\ d_count = 0
    /\ fs_l = 0 /\ fs_r = U16Max
    /\ net = << >>
    /\ now = 0
    /\ served = << >> /\ fresh = {} /\ nreq = 0 /\ last_req = NoRequest
    /\ sends = << >>
    /\ InitNoClients

SAccept == Len(m_conns) < MaxConns /\ MetadataAccept
SWrite == \E i \in 1..Len(m_conns) : \E written \in 0..MetadataLen(image) : MetadataWrite(i, written)
SJoin == \E i \in 1..Len(m_conns) : MetadataJoin(i)

NextStart ==
    \/ Cancel
    \/ MetadataBind \/ SAccept \/ SWrite \/ SJoin \/ MetadataCancelled
    \/ BeaconCancelled

\* The two spawned tasks are scheduled (tokio).
FairStart ==
    /\ WF_vars(MetadataBind) /\ WF_vars(MetadataCancelled)
    /\ WF_vars(BeaconCancelled) /\ WF_vars(BeaconReady)
    /\ WF_vars(BeaconSend) /\ WF_vars(BeaconSleep)

SpecStart == InitStart /\ [][NextStart]_vars /\ FairStart

(***************************************************************************)
(* SpecClient: the tasks of a client from their start, with the discovery  *)
(* datagrams and the metadata stream the network may deliver.              *)
(***************************************************************************)
InitClient ==
    /\ asm = ChunkAssembler_new(0) /\ hist = << >>
    /\ InitServer(XferFile, XferArgs, Clients)
    /\ ClientsNotStarted(Clients)

CDiscovery == \E c \in Clients : \E valid \in BOOLEAN : DiscoveryRecv(c, valid)
CDiscoveryCancelled == \E c \in Clients : DiscoveryCancelled(c)
CFetchCancelled == \E c \in Clients : FetchCancelled(c)
CFetchServer == \E c \in Clients : FetchServer(c)
CFetchConnect == \E c \in Clients : \E ok \in BOOLEAN : FetchConnect(c, ok)
CStreamSend == \E c \in Clients : \E written \in 1..MetadataLen(image) : StreamSend(c, written)
CStreamClose == \E c \in Clients : StreamClose(c)
CFetchRead == \E c \in Clients : f_reads[c] < MaxReads /\ FetchRead(c)
CReceiverServer == \E c \in Clients : ReceiverServer(c)
CReceiverImage == \E c \in Clients : ReceiverImage(c)
CWriterOpen == \E c \in Clients : WriterOpen(c)
CWriterImage == \E c \in Clients : WriterImage(c)

NextClient ==
    \/ Cancel
    \/ CDiscovery \/ CDiscoveryCancelled
    \/ CFetchCancelled \/ CFetchServer \/ CFetchConnect
    \/ CStreamSend \/ CStreamClose \/ CFetchRead
    \/ CReceiverServer \/ CReceiverImage \/ XTick
    \/ CWriterOpen \/ CWriterImage

SpecClient == InitClient /\ [][NextClient]_vars

(***************************************************************************)
(* SpecMeta: compute_image_metadata read by read, for files of up to       *)
(* MaxFileLen bytes and chunk sizes of up to MaxChunkSize.  A read returns *)
(* at least one byte before the end of the file and at most what is left   *)
(* of the file or the size of the buffer (std::io::Read::read).            *)
(***************************************************************************)
\* pos of compute_image_metadata: the sum of the sizes pushed so far.
MetaPos == IF image = << >> THEN 0
           ELSE image[Len(image)].offset + image[Len(image)].size

InitMeta ==
    /\ asm = ChunkAssembler_new(0) /\ hist = << >>
    /\ ServerNotStarted
    /\ cancelled = FALSE
    /\ \E L \in 0..MaxFileLen : file = [i \in 1..L |-> 10 + i]
    /\ \E S \in 1..MaxChunkSize :
          args = [chunk_size |-> S, max_udp_payload_size |-> 22, flood_speed |-> 1]
    /\ image = << >>
    /\ chan = << >> /\ l_pc = "recv" /\ l_ids = << >>
    /\ queue = {} /\ last_id = 0 /\ sleep = 0
    /\ d_pc = "loop" /\ d_next = 0 /\ d_count = 0
    /\ fs_l = 0 /\ fs_r = U16Max
    /\ net = << >>
    /\ now = 0
    /\ served = << >> /\ fresh = {} /\ nreq = 0 /\ last_req = NoRequest
    /\ sends = << >>
    /\ InitNoClients

\* One turn of `while pos < file_size`: file.read(buf) returns size bytes, and
\* the chunk (pos, size, hash of the bytes read) is pushed.
MetaRead ==
    /\ MetaPos < Len(file)
    /\ \E size \in 1..Min(args.chunk_size, Len(file) - MetaPos) :
          image' = Append(image, [offset |-> MetaPos, size |-> size,
                                  hash |-> Hash(SubSeq(file, MetaPos + 1, MetaPos + size))])
    /\ UNCHANGED <<vars_asm, vars_boot, vars_cli, req_net, cancelled, args, file, chan, vars_lst, vars_dsp,
                   net, now, vars_obs>>

NextMeta == MetaRead

SpecMeta == InitMeta /\ [][NextMeta]_vars

(***************************************************************************)
(* SpecSearch: the dispatcher's search for max_fragment_size, for every    *)
(* max_udp_payload_size up to MaxPayload.                                  *)
(***************************************************************************)
InitSearch ==
    /\ asm = ChunkAssembler_new(0) /\ hist = << >>
    /\ ServerStarted
    /\ cancelled = FALSE
    /\ file = DispFile
    /\ \E p \in 0..MaxPayload :
          args = [chunk_size |-> 1, max_udp_payload_size |-> p, flood_speed |-> 1]
    /\ image = compute_image_metadata(DispFile, 1)
    /\ chan = << >> /\ l_pc = "recv" /\ l_ids = << >>
    /\ queue = {} /\ last_id = 0 /\ sleep = 0
    /\ d_pc = "search" /\ d_next = 0 /\ d_count = 0
    /\ fs_l = 0 /\ fs_r = U16Max
    /\ net = [c \in {0} |-> {}]
    /\ now = 0
    /\ served = << >> /\ fresh = {} /\ nreq = 0 /\ last_req = NoRequest
    /\ sends = << >>
    /\ InitNoClients

NextSearch == SearchStep \/ SearchDone

SpecSearch == InitSearch /\ [][NextSearch]_vars

(***************************************************************************)
(* SpecFrag: the dispatcher from its start (the search included) serving   *)
(* chunks of two sizes, for the max_udp_payload_size of FragPayloads.      *)
(***************************************************************************)
FragFile == <<11, 12, 13, 14, 15>>
FragPayloads == MinFragPayload..MaxFragPayload

InitFrag ==
    /\ asm = ChunkAssembler_new(0) /\ hist = << >>
    /\ ServerStarted
    /\ cancelled = FALSE
    /\ file = FragFile
    /\ \E p \in FragPayloads :
          args = [chunk_size |-> 3, max_udp_payload_size |-> p, flood_speed |-> 1]
    /\ image = compute_image_metadata(FragFile, 3)
    /\ chan = << >> /\ l_pc = "recv" /\ l_ids = << >>
    /\ queue = {} /\ last_id = 0 /\ sleep = 0
    /\ d_pc = "search" /\ d_next = 0 /\ d_count = 0
    /\ fs_l = 0 /\ fs_r = U16Max
    /\ net = [c \in {0} |-> {}]
    /\ now = 0
    /\ served = << >> /\ fresh = {} /\ nreq = 0 /\ last_req = NoRequest
    /\ sends = << >>
    /\ InitNoClients

FRecv ==
    \E ids \in Requests(1) :
        /\ nreq < MaxReqs
        /\ ListenerRecv(ids, TRUE)
        /\ UNCHANGED req_net
FSend == Len(sends) < MaxSends /\ DispSend(FALSE, TRUE)

NextFrag ==
    \/ SearchStep \/ SearchDone
    \/ FRecv \/ DListenerSend
    \/ DLoop \/ DSelect \/ FSend

SpecFrag == InitFrag /\ [][NextFrag]_vars

(***************************************************************************)
(* Properties of the assembler (SpecAsm).                                  *)
(***************************************************************************)
\* The byte positions (0-based) a call covers, and the part of the history
\* accepted before call k.
BytesOf(c) == {c.offset + i : i \in 0..(Len(c.data) - 1)}
CoveredBefore(k) == UNION {BytesOf(hist[j]) : j \in {i \in 1..(k - 1) : hist[i].ok}}
AllBytes == 0..(Len(asm.data) - 1)

\* The calls of the history are distinct fragments inside the chunk, with
\* pairwise disjoint byte ranges whose union is [0, size).
HistIsPartition ==
    /\ Len(hist) >= 1
    /\ \A i \in 1..Len(hist) : hist[i].offset + Len(hist[i].data) <= Len(asm.data)
    /\ \A i, j \in 1..Len(hist) :
          i # j => /\ BytesOf(hist[i]) \cap BytesOf(hist[j]) = {}
                   /\ <<hist[i].offset, hist[i].data>> # <<hist[j].offset, hist[j].data>>
    /\ UNION {BytesOf(hist[i]) : i \in 1..Len(hist)} = AllBytes

\* The fragments' bytes concatenated in offset order.
Concatenation ==
    [p \in 1..Len(asm.data) |->
        LET c == CHOOSE c \in {hist[i] : i \in 1..Len(hist)} : (p - 1) \in BytesOf(c)
        IN  c.data[p - c.offset]]

AssembledOk ==
    /\ \A i \in 1..Len(hist) : hist[i].ok
    /\ is_complete(asm)
    /\ complete(asm) = Concatenation

\* C1: fragments with pairwise non-overlapping byte ranges whose union is
\* [0, size), delivered in any order, are all accepted, leave the assembler
\* complete, and complete() returns their bytes concatenated in offset order.
C1_AssemblerCorrect == HistIsPartition => AssembledOk

\* C1, for fragments that all carry at least one byte: the same statement holds.
C1_NonEmptyFragmentsAssemble ==
    (HistIsPartition /\ \A i \in 1..Len(hist) : Len(hist[i].data) > 0) => AssembledOk

\* C2: add_fragment returns an error if and only if the fragment ends beyond
\* the capacity or its byte range holds a byte an accepted fragment covers.
C2_RejectIffOutOfBoundsOrOverlap ==
    \A k \in 1..Len(hist) :
        (~hist[k].ok) <=>
            \/ hist[k].offset + Len(hist[k].data) > Len(asm.data)
            \/ BytesOf(hist[k]) \cap CoveredBefore(k) # {}

\* C2, one direction: a fragment out of bounds or overlapping a covered byte is
\* always rejected.
C2_OutOfBoundsOrOverlapRejected ==
    \A k \in 1..Len(hist) :
        (\/ hist[k].offset + Len(hist[k].data) > Len(asm.data)
         \/ BytesOf(hist[k]) \cap CoveredBefore(k) # {})
        => ~hist[k].ok

\* C3: a rejected add_fragment call leaves the buffer, the covered ranges and
\* is_complete() exactly as they were before the call.
C3_RejectLeavesUnchanged ==
    [][(Len(hist') = Len(hist) + 1 /\ ~hist'[Len(hist')].ok)
        => /\ asm'.data = asm.data
           /\ asm'.map = asm.map
           /\ is_complete(asm') = is_complete(asm)]_vars

\* C3 witness: a fragment was accepted, and a later overlapping one rejected.
C3_Witness ==
    \E k \in 2..Len(hist) :
        /\ ~hist[k].ok
        /\ \E j \in 1..(k - 1) : hist[j].ok /\ BytesOf(hist[j]) \cap BytesOf(hist[k]) # {}
        /\ Len(hist) = k
        /\ asm.map # {}

(***************************************************************************)
(* Properties of the dispatcher and the listener (SpecDisp, SpecPace).     *)
(***************************************************************************)
\* The ids of the last request received are distinct and in range.
LastReqDistinctValid ==
    /\ \A i, j \in 1..Len(last_req.ids) : i # j => last_req.ids[i] # last_req.ids[j]
    /\ \A i \in 1..Len(last_req.ids) : last_req.ids[i] < Len(image)

\* The rotation of the sorted set S that starts just after x.
Rotation(S, x) == SortedSeq({y \in S : y > x}) \o SortedSeq({y \in S : y <= x})

\* C6: a pick from a non-empty queue (the ids drained from the channel
\* included) with last served id x serves the smallest queued id greater than
\* x, or the smallest queued id if none is greater, and removes it from the
\* queue.
C6_DispatchRoundRobin ==
    [][LET q == queue \cup SeqRange(chan)
       IN  (d_pc = "loop" /\ q # {} /\ Len(served') = Len(served) + 1)
           => LET s == served'[Len(served')].id
              IN  /\ s \in q
                  /\ last_id' = s
                  /\ IF \E y \in q : y > last_id
                     THEN s > last_id /\ \A y \in q : y > last_id => s <= y
                     ELSE \A y \in q : s <= y
                  /\ queue' = q \ {s}]_vars

\* C6 witness: a pick from a queue of several ids wrapped around to a smaller
\* id and left an id queued.
C6_Witness ==
    /\ Len(served) >= 2
    /\ served[Len(served)].via = "queue"
    /\ served[Len(served)].id < served[Len(served) - 1].id
    /\ queue # {}

\* C7: the ids of one request that reached the server while nothing was queued
\* and the last served id was x are served in the rotation of their sorted
\* order that starts just after x, whatever their order in the request.
C7_RequestServedInRotation ==
    LET n == Len(last_req.ids)
    IN  (/\ last_req.idle
         /\ n >= 2
         /\ LastReqDistinctValid
         /\ Len(served) >= last_req.at + n)
        => [i \in 1..n |-> served[last_req.at + i].id]
             = Rotation(SeqRange(last_req.ids), last_req.x)

\* C8: a chunk is not served again for requests that had all reached the
\* dispatcher's channel before it was last served: every serve of an id
\* follows a request for it forwarded after the previous serve of that id.
C8_RequestsDeduplicated ==
    \A i \in 1..Len(served) : served[i].fresh

\* C9: the listener forwards no id out of range, so the channel, the queue and
\* the dispatcher never hold one and the dispatcher does not panic.
C9_NoInvalidIdForwarded ==
    /\ \A i \in 1..Len(chan) : chan[i] < Len(image)
    /\ \A x \in queue : x < Len(image)
    /\ d_pc # "panic"

\* C10: every fragment is sent no earlier than the previous fragment's send
\* deadline plus 8 * len(previous datagram) / flood_speed.
C10_PacingBound ==
    \A i \in 2..Len(sends) :
        sends[i].at >= sends[i - 1].deadline + SendDelay(sends[i - 1].len)


(***************************************************************************)
(* Properties of the transfer (SpecXfer).                                  *)
(***************************************************************************)
\* The pair of chunk i of the image: its file offset and the server's bytes.
PairOf(i) == <<image[i + 1].offset, ChunkBytes(i)>>

\* C4: the client's output is byte-exact.  Every (offset, bytes) pair handed
\* to the disk writer is the file offset of some chunk i with exactly the
\* server's bytes of chunk i; and once the receiver loop has exited with
\* `missing` empty and the writer has drained the channel, every chunk of
\* the image is on disk at its offset, whatever the order, loss or
\* duplication of the fragments.
C4_ByteExact ==
    \A c \in DOMAIN r_pc :
        /\ \A k \in 1..Len(to_disk[c]) :
              \E i \in 0..(Len(image) - 1) : to_disk[c][k] = PairOf(i)
        /\ (r_pc[c] = "done" /\ missing[c] = {} /\ to_disk[c] = << >>)
              => disk[c] = file

\* A client has finished a transfer of a non-empty image: the receiver has
\* exited with nothing missing and the writer has written every pair.
C4_Witness ==
    \E c \in DOMAIN r_pc :
        /\ file # << >>
        /\ r_pc[c] = "done" /\ missing[c] = {} /\ to_disk[c] = << >>
        /\ w_pc[c] = "done"
        /\ disk[c] = file

(***************************************************************************)
(* Properties of the transfer under loss (SpecLoss).                       *)
(***************************************************************************)
\* C5: loss recovery.  With a lossy but fair network, no cancellation and no
\* fatal error, the `missing` set of every client eventually becomes empty
\* and its receiver loop terminates.
C5_LossRecovery ==
    <>(\A c \in Clients : missing[c] = {} /\ r_pc[c] = "done")

(***************************************************************************)
(* Properties of the receiver's map of assemblers (SpecLoss).              *)
(***************************************************************************)
\* C11: in every reachable state of the chunk receiver the map of
\* in-progress assemblers holds at most 40 entries.
C11_AtMost40Assemblers ==
    \A c \in DOMAIN assemblers : Cardinality(DOMAIN assemblers[c]) <= 40

(***************************************************************************)
(* Properties of the receiver under corruption (SpecCorrupt).              *)
(***************************************************************************)
\* The bytes the ranges of an assembler cover, and the bytes of a fragment.
Covered(a) == UNION {{r[1] + k : k \in 0..(r[2] - 1)} : r \in a.map}
FragmentBytes(fragment) == {fragment.offset + k : k \in 0..(Len(fragment.data) - 1)}
\* The assembler client c holds for chunk i (a new one if it holds none),
\* and what fragment would complete it to.
AssemblerOf(c, i) ==
    IF i \in DOMAIN assemblers[c] THEN assemblers[c][i]
    ELSE ChunkAssembler_new(image[i + 1].size)
CompletedBy(c, fragment) ==
    LET a == AssemblerOf(c, fragment.chunk)
    IN  [whole |-> /\ FragmentBytes(fragment) \subseteq 0..(image[fragment.chunk + 1].size - 1)
                   /\ FragmentBytes(fragment) \cap Covered(a) = {}
                   /\ FragmentBytes(fragment) \cup Covered(a)
                         = 0..(image[fragment.chunk + 1].size - 1),
         bytes |-> [p \in 1..Len(a.data) |->
                      IF p - 1 \in FragmentBytes(fragment)
                      THEN fragment.data[p - fragment.offset] ELSE a.data[p]]]

\* C12: a chunk id leaves `missing` only in a step where a fragment completed
\* the chunk's assembler, the hash of the assembled bytes equals the hash of
\* the metadata, and the pair (offset, bytes) was put on the channel to the
\* disk writer; and when a received fragment completes an assembler whose
\* bytes do not hash to the metadata's hash, the assembler is dropped,
\* nothing is put on the channel and `missing` is unchanged.
C12_MissingRemoval ==
    [][\A c \in DOMAIN missing :
        /\ \A i \in missing[c] \ missing'[c] :
              \E fragment \in net[c] :
                  /\ fragment.chunk = i
                  /\ CompletedBy(c, fragment).whole
                  /\ Hash(CompletedBy(c, fragment).bytes) = image[i + 1].hash
                  /\ to_disk'[c] = Append(to_disk[c],
                                          <<image[i + 1].offset, CompletedBy(c, fragment).bytes>>)
        /\ \A fragment \in net[c] :
              ( /\ net'[c] = net[c] \ {fragment}
                /\ fragment.chunk \in DOMAIN assemblers[c]
                /\ assemblers'[c] # assemblers[c]
                /\ CompletedBy(c, fragment).whole
                /\ Hash(CompletedBy(c, fragment).bytes) # image[fragment.chunk + 1].hash )
              => /\ to_disk'[c] = to_disk[c]
                 /\ missing'[c] = missing[c]
                 /\ fragment.chunk \notin DOMAIN assemblers'[c]
    ]_vars

\* A chunk has just left `missing`: its pair is the last on the channel to
\* the disk writer, and the receiver holds an altered fragment of it.
C12_Witness ==
    \E c \in DOMAIN missing :
        /\ 0 \notin missing[c] /\ Len(image) > 0
        /\ to_disk[c] # << >>
        /\ to_disk[c][Len(to_disk[c])] = PairOf(0)
        /\ \E fragment \in net[c] : ~Genuine(fragment)

(***************************************************************************)
(* Properties of the receiver's requests (SpecNack).                       *)
(***************************************************************************)
\* C13: while the chunk receiver runs with a non-empty `missing` set and is
\* not cancelled, it sends a ChunkRequest every 100 ms: never more than
\* 100 ms pass since its last request (or since its start), whatever
\* datagrams arrive in between.
C13_NackEveryPeriod ==
    \A c \in DOMAIN r_pc :
        (r_pc[c] = "loop" /\ missing[c] # {} /\ ~cancelled)
            => now - r_req_at[c] <= ReceiverPeriod

(***************************************************************************)
(* Properties of cancellation (SpecPace).                                  *)
(***************************************************************************)
\* C14: once the cancellation signal is set the chunk dispatcher starts no
\* further work: it begins the transmission of no chunk, whether the id is
\* in its queue or buffered in the request channel.
C14_CancelPreempts ==
    [][cancelled => ~(d_pc # "send" /\ d_pc' = "send")]_vars

(***************************************************************************)
(* Properties of error propagation (SpecErr).                              *)
(***************************************************************************)
\* C15: whenever a task has ended with a fatal error (here the chunk
\* dispatcher, on a transport error), the shared cancellation signal is set.
C15_ErrorCancels == d_pc = "error" => cancelled

(***************************************************************************)
(* Properties of the image metadata (SpecMeta).                            *)
(***************************************************************************)
\* ceil(L / S)
CeilDiv(L, S) == (L + S - 1) \div S
RECURSIVE SumSizes(_)
SumSizes(chunks) == IF chunks = << >> THEN 0 ELSE Head(chunks).size + SumSizes(Tail(chunks))

\* C16: once compute_image_metadata has read the whole file of length L with
\* chunk size S, the metadata has ceil(L/S) chunks, the first at offset 0,
\* each chunk ending where the next begins, every chunk but the last of size
\* S, the last of size L mod S (or S when L mod S = 0), and the sizes sum to
\* L, however the reads returned the data.
C16_MetadataShape ==
    (MetaPos = Len(file)) =>
        LET L == Len(file)
            S == args.chunk_size
            n == Len(image)
        IN  /\ n = CeilDiv(L, S)
            /\ n > 0 => image[1].offset = 0
            /\ \A i \in 1..(n - 1) : image[i].offset + image[i].size = image[i + 1].offset
            /\ \A i \in 1..(n - 1) : image[i].size = S
            /\ n > 0 => image[n].size = (IF L % S = 0 THEN S ELSE L % S)
            /\ SumSizes(image) = L

(***************************************************************************)
(* The range set of the assembler (SpecAsm).                               *)
(***************************************************************************)
\* The bytes copied from the accepted fragments of the history.
AcceptedBytes == UNION {BytesOf(hist[k]) : k \in {j \in 1..Len(hist) : hist[j].ok}}

Fits(m) == EncodedLenWorst(m) <= args.max_udp_payload_size

\* C18: the search returns exactly the largest m in [0, 65535] whose encoded
\* datagram is at most max_udp_payload_size bytes long (enc being strictly
\* increasing, that is the m that fits whose successor does not), for every
\* max_udp_payload_size, those that not even m = 0 fits included.
C18_MaxFragmentSize ==
    (d_pc = "loop" /\ fs_r - fs_l <= 1)
        => /\ fs_l \in 0..U16Max
           /\ Fits(fs_l)
           /\ fs_l < U16Max => ~Fits(fs_l + 1)

(***************************************************************************)
(* Properties of the fragmentation of a served chunk (SpecFrag).           *)
(***************************************************************************)
\* The fragments sent for the s-th chunk served, in the order sent.
FragmentsOf(s) == SelectSeq(sends, LAMBDA f : f.service = s)

\* The s-th service has left its fragment loop.
ServiceOver(s) == s < Len(served) \/ d_pc # "send"

\* C19: the fragments sent for a served chunk have offsets that start at 0 and
\* strictly increase, each fragment starting where the previous one ended and
\* the payloads covering [0, chunk.size) exactly once; each payload has at
\* most max_fragment_size bytes and each encoded datagram at most
\* max_udp_payload_size bytes.
C19_Fragmentation ==
    \A s \in 1..Len(served) :
        LET F     == FragmentsOf(s)
            chunk == image[served[s].id + 1]
        IN  /\ F # << >> => F[1].offset = 0
            /\ \A j \in 2..Len(F) :
                  /\ F[j].offset = F[j - 1].offset + F[j - 1].size
                  /\ F[j].offset > F[j - 1].offset
            /\ \A j \in 1..Len(F) :
                  /\ F[j].offset + F[j].size <= chunk.size
                  /\ F[j].size <= max_fragment_size
                  /\ F[j].len <= args.max_udp_payload_size
            /\ (ServiceOver(s) /\ served[s].id < Len(image) /\ chunk.size > 0)
                  => /\ F # << >>
                     /\ F[Len(F)].offset + F[Len(F)].size = chunk.size

(***************************************************************************)
(* Properties of the requests of the receiver (SpecReach).                 *)
(***************************************************************************)
\* req holds exactly the Min(40, |S|) smallest ids of S, ascending and
\* without duplicates.
SmallestOf(req, S) ==
    /\ Len(req) = Min(RequestCapacity, Cardinality(S))
    /\ \A i \in 1..Len(req) : req[i] \in S
    /\ \A i, j \in 1..Len(req) : i < j => req[i] < req[j]
    /\ \A x \in S : (\A i \in 1..Len(req) : req[i] # x)
                        => \A i \in 1..Len(req) : req[i] < x

\* C20: the ChunkRequest the receiver sends on a tick holds exactly the
\* min(40, |missing|) smallest ids of the current `missing`, in ascending
\* order and without duplicates, so no id that has left `missing` is in it.
C20_NackContent ==
    [][\A c \in Clients :
          \A req \in req_net' \ req_net : SmallestOf(req, missing[c])]_vars

\* A request of 40 ids was sent while more than 40 chunks were missing, and
\* a later one while some chunks had been written and fewer were missing.
C20_Witness ==
    \E c \in Clients : \E req \in req_net :
        /\ Cardinality(missing[c]) < RequestCapacity
        /\ Cardinality(missing[c]) > 1
        /\ Len(req) = Cardinality(missing[c])
        /\ \E x \in 0..(Len(image) - 1) : x \notin missing[c] /\ x < req[Len(req)]

(***************************************************************************)
(* Properties of the receiver's map of assemblers (SpecEvict).             *)
(***************************************************************************)
\* The ids whose assemblers leave the map of client c in a step.
Gone(c) == DOMAIN assemblers[c] \ DOMAIN assemblers'[c]

\* C21: an assembler leaves the map without being complete only in a step
\* that receives a fragment of a chunk that has no assembler while the map is
\* full, and it is then the assembler with the smallest id; a fragment of a
\* chunk that has an assembler removes at most that assembler, completed.
C21_EvictionPolicy ==
    [][\A c \in Clients :
        /\ net'[c] = net[c] => Gone(c) = {}
        /\ \A fragment \in net[c] :
              net'[c] = net[c] \ {fragment} =>
                  /\ fragment.chunk \in Gone(c) => CompletedBy(c, fragment).whole
                  /\ fragment.chunk \in DOMAIN assemblers[c]
                        => Gone(c) \subseteq {fragment.chunk}
                  /\ Gone(c) \ {fragment.chunk} # {}
                        => /\ fragment.chunk \notin DOMAIN assemblers[c]
                           /\ Cardinality(DOMAIN assemblers[c]) >= AssemblerCap
                           /\ Gone(c) = {SetMin(DOMAIN assemblers[c])}
    ]_vars

\* An assembler was evicted: the fragment received last started the
\* assembler of its chunk, and the evicted chunk is still missing.
C21_Witness ==
    \E c \in Clients : \E i \in 1..Len(c_log[c]) :
        /\ c_log[c][i].ev = "evict"
        /\ c_log[c][i].id \in missing[c]
        /\ c_log[c][i].id \notin DOMAIN assemblers[c]

(***************************************************************************)
(* Properties of the disk writer (SpecWrite).                              *)
(***************************************************************************)
\* The pairs of a sequence of events.
PairsOf(events) == [i \in 1..Len(events) |-> events[i].pair]

\* C22: the writer writes the pairs in the order the receiver handed them to
\* the channel, each one whole before the next, and while it is not cancelled
\* it leaves none out: the pairs written are the first of the pairs handed
\* over, and all of them once the writer has stopped.
C22_WritesInOrder ==
    \A c \in Clients :
        LET H == PairsOf(Hands(c))
            W == PairsOf(Writes(c))
        IN  /\ Len(W) <= Len(H)
            /\ W = SubSeq(H, 1, Len(W))
            /\ (w_pc[c] # "loop" /\ ~cancelled) => W = H

\* C27: each chunk is handed to the disk writer at most once, and the bytes
\* the writer has counted are at most image_size.
C27_HandedOnce ==
    \A c \in Clients :
        /\ \A i, j \in 1..Len(Hands(c)) : Hands(c)[i].id = Hands(c)[j].id => i = j
        /\ w_count[c] <= ImageSize

(***************************************************************************)
(* Properties of the listener once the dispatcher has returned (SpecExit). *)
(***************************************************************************)
\* C23: once the channel to the dispatcher is closed the listener reads no
\* further datagram from the request socket, and (a failed send included) it
\* leaves its loop and returns.
C23_ListenerExits ==
    /\ [][ReceiverDropped => nreq' = nreq /\ (l_pc = "recv" => l_ids' = l_ids)]_vars
    /\ ReceiverDropped ~> l_pc = "done"

\* The listener has returned after a send on the closed channel failed: a
\* request of two ids was received and no id was ever forwarded.
C23_Witness ==
    /\ ReceiverDropped /\ l_pc = "done"
    /\ nreq = 1 /\ Len(last_req.ids) = 2
    /\ fresh = {} /\ served = << >> /\ chan = << >>

(***************************************************************************)
(* Properties of the start of the server's session (SpecStart).            *)
(***************************************************************************)
\* C24: the four tasks run (the request listener and the dispatcher are
\* started), the beacon sends no record before metadata_socket and
\* request_socket are both published, and in a session that is not
\* cancelled the beacon eventually sends a record.
C24_SessionStartup ==
    /\ [](beacons > 0 => metadata_socket /\ request_socket)
    /\ <>(cancelled \/ (l_pc # "none" /\ d_pc # "none" /\ beacons > 0))

(***************************************************************************)
(* Properties of the start of a client (SpecClient).                       *)
(***************************************************************************)
\* C25: when the bytes read from the metadata connection up to its end do
\* not decode as an ImageMetadata, the fetch task stops without publishing
\* metadata: it does not read the same connection again.
C25_BadStreamStops ==
    \A c \in Clients :
        /\ (f_reads[c] >= 1 /\ ~c_image[c]) => f_pc[c] \in {"done", "error"}
        /\ f_reads[c] <= 1

\* C26: the metadata fetch does not connect before the discovery record is
\* published; the receiver sends no request and creates no assembler, and
\* the disk writer does not open, create or resize the output file, before
\* the image metadata is published.
C26_ClientGating ==
    \A c \in Clients :
        /\ f_pc[c] \in {"connect", "read"} => c_server[c]
        /\ (r_pc[c] \notin {"start", "wait_image"} \/ assemblers[c] # << >>) => c_image[c]
        /\ req_net # {} => \E d \in Clients : c_image[d]
        /\ (w_pc[c] # "start" \/ o_file[c] # "absent") => c_image[c]

(***************************************************************************)
(* Properties of the receiver on a shared multicast group (SpecForeign).   *)
(***************************************************************************)
\* C28: a datagram that decodes as ChunkData with a chunk index that is not
\* in the image metadata does not abort the receiver: the receiver drops it
\* and goes on.
C28_NoOutOfRangeIndex ==
    [][\A c \in Clients :
          \A fragment \in net[c] :
              (fragment.chunk >= Len(image) /\ net'[c] = net[c] \ {fragment})
                  => /\ r_pc'[c] = r_pc[c]
                     /\ assemblers'[c] = assemblers[c]
                     /\ missing'[c] = missing[c]
    ]_vars

(***************************************************************************)
(* Properties of the end of the service of a chunk (SpecFrag).             *)
(***************************************************************************)
\* C29: every datagram of a served chunk carries at least one byte, so the
\* fragment loop advances with each one, and a chunk of n bytes is sent in
\* exactly ceil(n / max_fragment_size) datagrams (k datagrams with
\* (k - 1) * max_fragment_size < n <= k * max_fragment_size), never more.
C29_ServeTerminates ==
    \A s \in 1..Len(served) :
        LET F == FragmentsOf(s)
            n == image[served[s].id + 1].size
        IN  served[s].id < Len(image) =>
                /\ \A j \in 1..Len(F) : F[j].size >= 1
                /\ (Len(F) - 1) * max_fragment_size < n
                /\ ServiceOver(s) => n <= Len(F) * max_fragment_size
====
